---------------------------- MODULE Spec2Model ----------------------------
(***************************************************************************)
(* A model of the stage execution engine of wvr-rendering: ShaderView      *)
(* (src/src/lib.rs), Stage (src/src/stage.rs) and Filter                   *)
(* (src/src/filter.rs).                                                    *)
(*                                                                         *)
(* Conventions.  Rust Vec indices are 0-based and are kept 0-based in the  *)
(* parameters of the actions; TLA+ sequences are 1-based, so element i of  *)
(* a Vec is s[i + 1].  A HashMap is a set of entries with distinct keys.   *)
(* A GPU texture is named by <<id of the pair it was allocated in, k>>,    *)
(* k in {0, 1} its place in the pair at allocation; what it holds is the   *)
(* ghost field content: the stage and the frame of the draw that wrote it. *)
(* A Rust panic ends the process: status becomes "panicked", the view and  *)
(* all it owned are gone, and no action is enabled any more.               *)
(*                                                                         *)
(* Specifications.  Spec has every operation over every configuration.     *)
(* The properties are checked under its parts, each small enough to be     *)
(* explored completely: SpecList (construction and the list mutations),    *)
(* SpecGraph (every operation on the stage and buffer lists), SpecRender   *)
(* (frames over every two-stage wiring) and SpecFilter (shader edits and   *)
(* recompilation).  The backend is the environment: an allocation, a draw, *)
(* a Stage::update or a compilation may fail wherever the code calls it.   *)
(***************************************************************************)
EXTENDS Integers, Sequences, FiniteSets, TLC

\* ------------------------------------------------------------------ bounds
MaxStages == 2       \* stages in a render chain
MaxFrames == 2       \* render_stages calls in the rendering specification
MaxGraphFrames == 1  \* render_stages calls in the graph specification

\* --------------------------------------------------------------- universes
FilterNames == {"f"}
UniformNames == {"in0", "v"}
VariableNames == {"v"}
Resolutions == {<<640, 480>>, <<800, 600>>}

\* stage.rs: the match of from_config and set_precision
BufferFormat(precision) ==
    CASE precision = "U8" -> "U8U8U8U8"
      [] precision = "F16" -> "F16F16F16F16"
      [] OTHER -> "F32F32F32F32"

\* `x as u32` of a usize: every value the model holds is below 2^31, where
\* the conversion keeps the value
AsU32(x) == x

\* `*value as f32` of an f64: every number the model holds is a small
\* multiple of 1/2, which f32 represents exactly
AsF32(x) == x

\* DataHolder. A number x is held as the integer 2 * x (fixed point in
\* halves); "String" stands for the variants UniformHolder::try_from has no
\* arm for. NoValue is Option::None.
NoValue == [kind |-> "None", v |-> 0]
Float(v) == [kind |-> "Float", v |-> v]
FloatArray(v) == [kind |-> "FloatArray", v |-> v]
Unsupported == [kind |-> "String", v |-> 0]
Texture(v) == [kind |-> "Texture", v |-> v]

\* &a + &b and &w * &r of wvr_data's DataHolder, on the fixed-point numbers
DataAdd(a, b) == [kind |-> a.kind, v |-> a.v + b.v]
DataMul(w, r) == [kind |-> r.kind, v |-> (w.v * r.v) \div 2]

\* HashMap::insert(key, value)
Put(map, key, value) ==
    [k \in DOMAIN map \cup {key} |-> IF k = key THEN value ELSE map[k]]

\* the iteration orders a HashMap with the keys keySet can have
Orders(keySet) ==
    {o \in [1..Cardinality(keySet) -> keySet] :
        \A i, j \in 1..Cardinality(keySet) : i # j => o[i] # o[j]}

\* an entry of Stage.variable_list: (value, automation, offset); automation
\* is "None" or "Curve", offset is NoOffset or (reference, weight)
NoOffset == [reference |-> "", weight |-> NoValue]
Offset(reference, weight) == [reference |-> reference, weight |-> weight]
Variable(value, automation, offset) ==
    [value |-> value, automation |-> automation, offset |-> offset]

\* UniformHolder::try_from, the Texture arm: the texture built, with its
\* mipmaps generated (ghost kind "TextureMipmaps") if generate_mipmaps
TextureKind(generate_mipmaps) ==
    IF generate_mipmaps THEN "TextureMipmaps" ELSE "Texture"

\* UniformHolder::try_from((display, value, generate_mipmaps)): "ok" with the
\* holder, "err" when the backend fails to build the texture or the buffer
\* of an array (buildFail), "panic" in the unimplemented!() arm
TryFromWith(value, generate_mipmaps, buildFail) ==
    CASE value.kind = "Float" ->
           [result |-> "ok", holder |-> [kind |-> "Float", v |-> AsF32(value.v)]]
      [] value.kind = "Texture" ->
           IF buildFail
           THEN [result |-> "err", holder |-> NoValue]
           ELSE [result |-> "ok",
                 holder |-> [kind |-> TextureKind(generate_mipmaps), v |-> value.v]]
      [] value.kind = "FloatArray" ->
           IF buildFail
           THEN [result |-> "err", holder |-> NoValue]
           ELSE [result |-> "ok", holder |-> [kind |-> "Buffer", v |-> value.v]]
      [] OTHER -> [result |-> "panic", holder |-> NoValue]

\* UniformHolder::try_from((display, value, false))
TryFrom(value, buildFail) == TryFromWith(value, FALSE, buildFail)

\* RenderStageConfig: what Stage::from_config reads
VarStageConfig(name, filter, inputs, variables) ==
    [name |-> name, filter |-> filter, precision |-> "U8",
     inputs |-> inputs, variables |-> variables]

StageConfig(name, filter, srcs) ==
    VarStageConfig(name, filter,
        {[uniform |-> "in0", kind |-> "Linear", src |-> s] : s \in srcs}, <<>>)

\* the stage configurations of the model: A feeding back on itself, A and B
\* reading each other, and a stage whose filter is in no filter list
StageConfigs ==
    {StageConfig("A", "f", {"A"}), StageConfig("A", "f", {"B"}),
     StageConfig("B", "f", {"A"}), StageConfig("B", "nofilter", {})}

VARIABLES
    status,             \* "init" | "running" | "failed" | "panicked"
    resolution,         \* ShaderView.resolution
    dynamic,            \* ShaderView.dynamic
    render_chain,       \* ShaderView.render_chain: Seq of Stage
    render_buffer_list, \* ShaderView.render_buffer_list: Seq of pairs
    filter_list,        \* ShaderView.filter_list: filter name -> Filter
    uniform_holder,     \* ShaderView.uniform_holder: source id -> UniformHolder
    final_stage,        \* ShaderView.final_stage
    frame,              \* ghost: number of render_stages calls so far
    drawLog,            \* ghost: the draws of the last render_stages call
    lastOp              \* ghost: the last call and how it returned

vars == <<status, resolution, dynamic, render_chain, render_buffer_list,
          filter_list, uniform_holder, final_stage, frame, drawLog, lastOp>>

\* ----------------------------------------------------------------- helpers
\* Vec::remove(i), i 0-based and in range
RemoveAt(s, i) == SubSeq(s, 1, i) \o SubSeq(s, i + 2, Len(s))

Range(s) == {s[i] : i \in 1..Len(s)}

\* Vec::insert(i, x), i 0-based and i <= len
InsertAt(s, i, x) == SubSeq(s, 1, i) \o <<x>> \o SubSeq(s, i + 1, Len(s))

Empty == [by |-> 0, frame |-> 0]

\* ghost: the mipmap levels of a texture, the content they were generated of
\* and the render_stages call that generated them; allocated empty
NoMipmaps == [of |-> Empty, at |-> 0]

\* Texture2d::empty_with_format(display, format, EmptyMipmaps, w, h)
EmptyTexture(pid, k, format, res) ==
    [id |-> <<pid, k>>, format |-> format,
     size |-> <<AsU32(res[1]), AsU32(res[2])>>, content |-> Empty,
     mipmaps |-> NoMipmaps]

\* (vec![texture, texture], (w as u32, h as u32)); owner and draws are ghost
NewPairBody(pid, stage, res) ==
    [id |-> pid, owner |-> stage.sid, draws |-> 0,
     tex |-> <<EmptyTexture(pid, 0, stage.buffer_format, res),
               EmptyTexture(pid, 1, stage.buffer_format, res)>>,
     res |-> <<AsU32(res[1]), AsU32(res[2])>>]

NewPair(pid, stage, res) == NewPairBody(pid, stage, res)

\* Stage::new
StageNew(sid, name, buffer_format, filter, input_map, variable_list, uniform_list) ==
    [sid |-> sid, name |-> name, filter |-> filter, input_map |-> input_map,
     variable_list |-> variable_list, uniform_list |-> uniform_list,
     buffer_format |-> buffer_format, recreate_buffers |-> TRUE]

\* Stage::from_config, the conversion loop: how the first conversion that
\* does not succeed ends ("ok": all succeed)
RECURSIVE FromConfigResult(_, _, _)
FromConfigResult(variables, order, buildFail) ==
    IF order = <<>> THEN "ok"
    ELSE LET r == TryFrom(variables[Head(order)].value, buildFail).result
         IN IF r # "ok" THEN r
            ELSE FromConfigResult(variables, Tail(order), buildFail)

\* Stage::from_config when every conversion succeeds
StageFromConfig(sid, config) ==
    StageNew(sid, config.name, BufferFormat(config.precision), config.filter,
             config.inputs, config.variables,
             [n \in DOMAIN config.variables |->
                 TryFrom(config.variables[n].value, FALSE).holder])

\* the final stage of a view that is not built: nothing named, no input
NoStage == [StageNew(0, "", "U8U8U8U8", "", {}, <<>>, <<>>) EXCEPT !.recreate_buffers = FALSE]

\* the ghost lastOp: the call, how it returned ("ok" | "err" | "panic"), what
\* failed ("none" | "alloc" | "stage" | "draw" | "filter" | "NotFound" | "compile" |
\* "index" | "diagnostic") and how a recompilation in it went ("none" | "ok"
\* | "fail")
\* and, for take_screenshot, the texture that was read back (shot)
\* and, for new, what Filter::from_config was called with (source)
\* and, for render_final_stage, the draw to the window if there was one (draw)
NoShot == [name |-> "", tex |-> <<0, 0>>, content |-> Empty]
NoSource ==
    [path_list |-> <<>>, vertex_shader |-> <<>>, fragment_shader |-> <<>>,
     exists |-> {}]
Op(name, result) ==
    [op |-> name, result |-> result, error |-> "none", compile |-> "none",
     shot |-> NoShot, source |-> NoSource, draw |-> <<>>]
Failed(name, result, error) ==
    [op |-> name, result |-> result, error |-> error, compile |-> "none",
     shot |-> NoShot, source |-> NoSource, draw |-> <<>>]

Running == status = "running"

\* ------------------------------------------------------------------ Filter
\* shader source texts: an even text compiles, an odd one does not
Texts == 0..2
FragmentTexts == 0..1
TextValid(t) == t % 2 = 0
NumLines(t) == 1 + (t \div 2)

\* program!(display, 140 => {vertex, fragment}): Ok iff both sources are valid
Compiles(v, f) == TextValid(v) /\ TextValid(f)

\* Box<dyn Shader>: the composed text and whether it changed since last asked
\* files: the FileShaders of a ShaderComposer, in the order pushed
ShaderSource(t) == [text |-> t, changed |-> FALSE, files |-> <<>>]

\* shader files: the candidate roots ShaderView::new hands to from_config
\* (the filter's own src directory, then the shared library root), the file
\* names a configuration lists (relative names; one carries the marker of a
\* system fragment) and a file system, the set of <<root, file>> that exist
PathList == <<"local", "libs">>
ShaderFiles == {"a", "#a"}
FileSystems == SUBSET ({PathList[i] : i \in 1..Len(PathList)} \X ShaderFiles)

\* a candidate loop without the break: the last root that has the file wins
LastCandidate(path_list, shader_file, exists) ==
    LET hits == {i \in 1..Len(path_list) : <<path_list[i], shader_file>> \in exists}
    IN IF hits = {} THEN 0 ELSE CHOOSE i \in hits : \A j \in hits : j <= i

\* Filter::from_config, the candidate loop: the first root of path_list
\* (1-based) under which path_folder.join(shader_file) exists, 0: none
FirstCandidate(path_list, shader_file, exists) ==
    LET hits == {i \in 1..Len(path_list) : <<path_list[i], shader_file>> \in exists}
    IN IF hits = {} THEN 0 ELSE CHOOSE i \in hits : \A j \in hits : i <= j

\* FileShader::new(shader_file_path, true)
FileShader(path) == [path |-> path, watch |-> TRUE]

\* the loop over the listed files of one shader: every file resolved
Located(path_list, files, exists) ==
    \A k \in 1..Len(files) : FirstCandidate(path_list, files[k], exists) # 0

\* the loop over the listed files of one shader: the FileShaders pushed
Composed(path_list, files, exists) ==
    [k \in 1..Len(files) |->
        FileShader(<<path_list[FirstCandidate(path_list, files[k], exists)],
                     files[k]>>)]

\* what Filter::from_config is called with and meets: the roots, the files
\* of FilterConfig and the file system
FilterSource(path_list, vertex_shader, fragment_shader, exists) ==
    [path_list |-> path_list, vertex_shader |-> vertex_shader,
     fragment_shader |-> fragment_shader, exists |-> exists]

AllLocated(source) ==
    /\ Located(source.path_list, source.vertex_shader, source.exists)
    /\ Located(source.path_list, source.fragment_shader, source.exists)

NoFilter ==
    [vertex_shader |-> ShaderSource(0), fragment_shader |-> ShaderSource(0),
     vertex_text |-> 0, fragment_text |-> 0,
     program |-> [vertex |-> 0, fragment |-> 0], inputs |-> {},
     uniform_holder |-> <<>>, frame_count |-> 0]

\* Filter::new: the buffers, the cached texts, then the program
FilterNew(vertex_shader, fragment_shader, inputs, defaults, bufferFail) ==
    IF bufferFail THEN [result |-> "err", filter |-> NoFilter]
    ELSE IF ~Compiles(vertex_shader.text, fragment_shader.text)
    THEN [result |-> "panic", filter |-> NoFilter]
    ELSE [result |-> "ok",
          filter |-> [vertex_shader |-> vertex_shader,
                      fragment_shader |-> fragment_shader,
                      vertex_text |-> vertex_shader.text,
                      fragment_text |-> fragment_shader.text,
                      program |-> [vertex |-> vertex_shader.text,
                                   fragment |-> fragment_shader.text],
                      inputs |-> inputs,
                      uniform_holder |-> defaults,
                      frame_count |-> 0]]

\* Filter::from_config, the loop over config.variables: the conversions
\* that succeed are kept as (value, None), the others are passed over
FilterDefaults(variables, buildFail) ==
    LET kept == {n \in DOMAIN variables : TryFrom(variables[n], buildFail).result = "ok"}
    IN [n \in kept |-> [value |-> TryFrom(variables[n], buildFail).holder,
                        sampling |-> "None"]]

\* Filter::from_config, the loop over config.variables: a conversion panics
FilterConfigPanics(variables) ==
    \E n \in DOMAIN variables : TryFrom(variables[n], FALSE).result = "panic"

\* Filter::from_config: every shader file found in a candidate root, or NotFound
FilterFromConfig(source, vt, ft, inputs, variables, bufferFail, buildFail) ==
    IF ~AllLocated(source) THEN [result |-> "err", filter |-> NoFilter]
    ELSE FilterNew([ShaderSource(vt) EXCEPT !.files =
                       Composed(source.path_list, source.vertex_shader,
                                source.exists)],
                   [ShaderSource(ft) EXCEPT !.files =
                       Composed(source.path_list, source.fragment_shader,
                                source.exists)],
                   inputs,
                   FilterDefaults(variables, buildFail), bufferFail)

\* ------------------------------------------------- parse_error_message
\* A backend diagnostic is a sequence of one-character strings.
Digits == {"0", "1", "2", "3", "4", "5", "6", "7", "8", "9"}
DigitVal(ch) ==
    CASE ch = "0" -> 0 [] ch = "1" -> 1 [] ch = "2" -> 2 [] ch = "3" -> 3
      [] ch = "4" -> 4 [] ch = "5" -> 5 [] ch = "6" -> 6 [] ch = "7" -> 7
      [] ch = "8" -> 8 [] OTHER -> 9

\* str::split(c): the parts between the occurrences of c, at least one part
RECURSIVE SplitFrom(_, _, _, _)
SplitFrom(s, c, i, part) ==
    IF i > Len(s) THEN <<part>>
    ELSE IF s[i] = c THEN <<part>> \o SplitFrom(s, c, i + 1, <<>>)
    ELSE SplitFrom(s, c, i + 1, Append(part, s[i]))
Split(s, c) == SplitFrom(s, c, 1, <<>>)

\* str::parse::<usize>(): -1 for Err; digits only, one leading "+" allowed
RECURSIVE DigitsValue(_, _, _)
DigitsValue(s, i, acc) ==
    IF i > Len(s) THEN acc
    ELSE IF s[i] \notin Digits THEN -1
    ELSE DigitsValue(s, i + 1, acc * 10 + DigitVal(s[i]))
ParseUsize(s) ==
    IF Len(s) = 0 THEN -1
    ELSE IF s[1] = "+" THEN (IF Len(s) = 1 THEN -1 ELSE DigitsValue(s, 2, 0))
    ELSE DigitsValue(s, 1, 0)

\* text.lines().nth(error_line - 1): the outcomes the build can produce.
\* error_line = 0 underflows: a panic with overflow checks, else nth(MAX) = None
CodeLineOutcomes(error_line, text) ==
    IF error_line = 0 THEN {"panic", "err"}
    ELSE IF error_line > NumLines(text) THEN {"err"}
    ELSE {"ok"}

\* parse_error_message: the set of outcomes ("ok": Ok(message), "err": Err,
\* "panic") for an error of the given kind ("compilation" or another kind)
ParseErrorMessageBody(kind, message, shader_type, vertex_text, fragment_text) ==
    IF kind # "compilation" THEN {"ok"}
    ELSE LET message_parts == Split(message, ":")
         IN IF Len(message_parts) < 2 THEN {"ok"}
            ELSE LET position_info_parts == Split(message_parts[2], "(")
                     error_line == ParseUsize(position_info_parts[1])
                 IN IF error_line = -1 THEN {"err"}
                    ELSE IF Len(position_info_parts) < 2 THEN {"ok"}
                    ELSE LET error_char == position_info_parts[2]
                         IN IF Len(error_char) = 0 THEN {"panic"}
                            ELSE IF ParseUsize(SubSeq(error_char, 1,
                                               Len(error_char) - 1)) = -1
                            THEN {"err"}
                            ELSE CASE shader_type = "Vertex" ->
                                        CodeLineOutcomes(error_line, vertex_text)
                                   [] shader_type = "Fragment" ->
                                        CodeLineOutcomes(error_line, fragment_text)
                                   [] OTHER -> {"panic"}

ParseErrorMessage(kind, message, shader_type, vertex_text, fragment_text) ==
    ParseErrorMessageBody(kind, message, shader_type, vertex_text, fragment_text)

\* the diagnostics the backend may hand back
Diagnostics ==
    { <<"0", ":", "1", "(", "5", ")", ":", "e">>,
      <<"0", ":", "2", "(", "5", ")", ":", "e">>,
      <<"0", "(", "1", ")", " ", ":", "e">>,
      <<"e">>,
      <<"0", ":", "1", "(">>,
      <<"0", ":", "0", "(", "5", ")", ":", "e">>,
      <<"0", ":", "1", "(", "x", ")", ":", "e">> }
\* ProgramCreationError: <<kind, message>>
CompileErrors ==
    {<<"compilation", m>> : m \in Diagnostics} \cup {<<"linking", <<"e">>>>}
ShaderTypes == {"Vertex", "Fragment"}

\* Filter::set_frame_count
SetFrameCount(filter, frame_count) == [filter EXCEPT !.frame_count = frame_count]

\* Shader::check_changes: Ok(changed), the flag read and reset, or Err
CheckChanges(shader, checkErr) ==
    IF checkErr THEN [changed |-> FALSE, shader |-> shader]
    ELSE [changed |-> shader.changed,
          shader |-> [shader EXCEPT !.changed = FALSE]]

\* an Err arm that installs a program of the failing texts
InstallProgram(filter, vertex_text, fragment_text) ==
    [vertex |-> vertex_text, fragment |-> fragment_text]

\* the Err arm of the recompilation in Filter::update: the program is kept
KeepProgram(filter, vertex_text, fragment_text) == filter.program

\* Filter::update, up to the recompilation: the filter afterwards, how the
\* compilation went ("none" | "ok" | "fail") and whether the call panicked
FilterUpdate(filter, checkErrV, checkErrF, kind, message, shader_type, outcome) ==
    LET v == CheckChanges(filter.vertex_shader, checkErrV)
        f == CheckChanges(filter.fragment_shader, checkErrF)
        vertex_text == IF v.changed THEN v.shader.text ELSE filter.vertex_text
        fragment_text == IF f.changed THEN f.shader.text ELSE filter.fragment_text
        checked == [filter EXCEPT !.vertex_shader = v.shader,
                                  !.fragment_shader = f.shader]
    IN IF ~(v.changed \/ f.changed)
       THEN [filter |-> checked, compile |-> "none", panic |-> FALSE]
       ELSE LET texts == [checked EXCEPT !.vertex_text = vertex_text,
                                         !.fragment_text = fragment_text]
            IN IF Compiles(vertex_text, fragment_text)
               THEN [filter |-> [texts EXCEPT !.program =
                                    [vertex |-> vertex_text,
                                     fragment |-> fragment_text]],
                     compile |-> "ok", panic |-> FALSE]
               ELSE [filter |-> [texts EXCEPT !.program =
                                    KeepProgram(filter, vertex_text, fragment_text)],
                     compile |-> "fail",
                     panic |-> outcome = "panic"]

\* -------------------------------------------------------------------- Init
\* before ShaderView::new: no view yet
Init ==
    /\ status = "init"
    /\ resolution = <<640, 480>>
    /\ dynamic = FALSE
    /\ render_chain = <<>>
    /\ render_buffer_list = <<>>
    /\ filter_list = [n \in FilterNames |-> NoFilter]
    /\ uniform_holder = <<>>
    /\ final_stage = NoStage
    /\ frame = 0
    /\ drawLog = <<>>
    /\ lastOp = Op("none", "ok")

\* a panic in the call name: the process ends and the view is dropped
PanicWith(op) ==
    /\ status' = "panicked"
    /\ lastOp' = op
    /\ resolution' = <<640, 480>>
    /\ dynamic' = FALSE
    /\ render_chain' = <<>>
    /\ render_buffer_list' = <<>>
    /\ filter_list' = [n \in FilterNames |-> NoFilter]
    /\ uniform_holder' = <<>>
    /\ final_stage' = NoStage
    /\ frame' = 0
    /\ drawLog' = <<>>
Panic(name, error) == PanicWith(Failed(name, "panic", error))

\* ghost identities: the least one no live object carries (a freed texture
\* name or address may be handed out again)
LeastFree(used) == CHOOSE n \in 1..(Cardinality(used) + 1) :
                      /\ n \notin used
                      /\ \A m \in 1..(n - 1) : m \in used
FreshPair(list) == LeastFree({list[i].id : i \in 1..Len(list)})
FreshSid(chain, list) ==
    LeastFree({chain[i].sid : i \in 1..Len(chain)}
              \cup {list[i].owner : i \in 1..Len(list)}
              \cup {list[i].tex[k].content.by : i \in 1..Len(list), k \in 1..2})

\* --------------------------------------------------------- ShaderView::new
ChainsOver(configs) ==
    {<<>>} \cup {<<a>> : a \in configs}
           \cup {<<a, b>> : a \in configs, b \in configs}
ChainConfigs == ChainsOver(StageConfigs)
GraphStageConfigs ==
    {StageConfig("A", "f", {"A"}), StageConfig("B", "nofilter", {})}
FilterChainConfigs == {<<StageConfig("A", "f", {"A"})>>}
InitTexts == {0, 1}

\* the stage loop of ShaderView::new: stage i and its pair, flag cleared
NewChain(cc) ==
    [i \in 1..Len(cc) |->
        [StageFromConfig(i, cc[i]) EXCEPT !.recreate_buffers = FALSE]]
NewBufferList(cc, res) ==
    [i \in 1..Len(cc) |-> NewPair(i, StageFromConfig(i, cc[i]), res)]

\* the stage loop of ShaderView::new, then the final stage (the last of
\* cc): how the first Stage::from_config that does not succeed ends ("ok":
\* all succeed); orders[i] is the order in which the variables of stage i
\* are converted
RECURSIVE ChainResult(_, _, _, _)
ChainResult(i, cc, orders, buildFail) ==
    IF i > Len(cc) THEN "ok"
    ELSE LET r == FromConfigResult(cc[i].variables, orders[i], buildFail)
         IN IF r # "ok" THEN r ELSE ChainResult(i + 1, cc, orders, buildFail)

\* the orders in which the stages of cc can convert their variables
ChainOrders(cc) ==
    {os \in [1..Len(cc) -> UNION {Orders(DOMAIN cc[i].variables) : i \in 1..Len(cc)}] :
        \A i \in 1..Len(cc) : os[i] \in Orders(DOMAIN cc[i].variables)}

New(cc, fsc, fvars, res, dyn, source, vt, ft, bufferFail, allocFail, orders, buildFail) ==
    /\ status = "init"
    /\ LET fr == FilterFromConfig(source, vt, ft, UniformNames, fvars,
                                  bufferFail, buildFail)
           cr == ChainResult(1, cc \o <<fsc>>, orders, buildFail)
       IN CASE AllLocated(source) /\ FilterConfigPanics(fvars) ->
                 Panic("new", "convert")
            [] fr.result = "panic" -> Panic("new", "compile")
            [] fr.result = "ok" /\ ~allocFail /\ cr = "panic" ->
                 Panic("new", "convert")
            [] fr.result = "err" \/ allocFail \/ cr = "err" ->
                 /\ status' = "failed"
                 /\ lastOp' = [Failed("new", "err",
                                      IF ~AllLocated(source) THEN "NotFound"
                                      ELSE IF fr.result = "err" THEN "filter"
                                      ELSE IF allocFail THEN "alloc" ELSE "stage")
                                   EXCEPT !.source = source]
                 /\ UNCHANGED <<final_stage, resolution, dynamic, render_chain,
                                render_buffer_list, filter_list, uniform_holder,
                                frame, drawLog>>
            [] OTHER ->
                 /\ status' = "running"
                 /\ resolution' = res
                 /\ dynamic' = dyn
                 /\ render_chain' = NewChain(cc)
                 /\ render_buffer_list' = NewBufferList(cc, res)
                 /\ filter_list' = [n \in FilterNames |-> fr.filter]
                 /\ lastOp' = [Op("new", "ok") EXCEPT !.source = source]
                 /\ final_stage' = StageFromConfig(0, fsc)
                 /\ UNCHANGED <<uniform_holder, frame, drawLog>>

\* ------------------------------------------------- stage-list mutation
\* remove_render_stage(stage_index): Vec::remove panics out of range
RemoveRenderStage(stage_index) ==
    /\ Running
    /\ IF stage_index >= Len(render_buffer_list) \/ stage_index >= Len(render_chain)
       THEN Panic("remove", "index")
       ELSE /\ render_buffer_list' = RemoveAt(render_buffer_list, stage_index)
            /\ render_chain' = RemoveAt(render_chain, stage_index)
            /\ lastOp' = Op("remove", "ok")
            /\ drawLog' = <<>>
            /\ UNCHANGED <<final_stage, uniform_holder, status, resolution, dynamic, filter_list, frame>>

\* the two Vec operations of move_render_stage on one list
MovedBody(s, original_index, target_index) ==
    InsertAt(RemoveAt(s, original_index), target_index, s[original_index + 1])

Moved(s, original_index, target_index) ==
    MovedBody(s, original_index, target_index)

\* a move that forgets the buffer list
MovedBuffersStale(list, original_index, target_index) == list

\* move_render_stage on render_buffer_list: the pair travels with its stage
MovedBuffers(list, original_index, target_index) ==
    Moved(list, original_index, target_index)

\* move_render_stage(original_index, target_index): Vec::remove panics when
\* original_index >= len, Vec::insert when target_index > len after the removal
MoveRenderStage(original_index, target_index) ==
    /\ Running
    /\ IF \/ original_index >= Len(render_buffer_list)
          \/ target_index > Len(render_buffer_list) - 1
          \/ original_index >= Len(render_chain)
          \/ target_index > Len(render_chain) - 1
       THEN Panic("move", "index")
       ELSE /\ render_buffer_list' =
                   MovedBuffers(render_buffer_list, original_index, target_index)
            /\ render_chain' = Moved(render_chain, original_index, target_index)
            /\ lastOp' = Op("move", "ok")
            /\ drawLog' = <<>>
            /\ UNCHANGED <<final_stage, uniform_holder, status, resolution, dynamic, filter_list, frame>>

\* add_render_stage(display, stage): the pair is built before the push
AddRenderStage(config, allocFail) ==
    /\ Running
    /\ Len(render_chain) < MaxStages
    /\ LET stage == StageFromConfig(FreshSid(render_chain, render_buffer_list),
                                    config)
       IN IF allocFail
          THEN /\ lastOp' = Failed("add", "err", "alloc")
               /\ UNCHANGED <<render_chain, render_buffer_list>>
          ELSE /\ render_buffer_list' =
                      Append(render_buffer_list,
                             NewPair(FreshPair(render_buffer_list), stage,
                                     resolution))
               /\ render_chain' = Append(render_chain, stage)
               /\ lastOp' = Op("add", "ok")
    /\ drawLog' = <<>>
    /\ UNCHANGED <<final_stage, uniform_holder, status, resolution, dynamic, filter_list, frame>>

\* stage_index_list: the map collected from (name, index) in chain order, a
\* later stage of a name overwriting an earlier one
StageIndexList(chain) ==
    [name \in {chain[i].name : i \in 1..Len(chain)} |->
        (CHOOSE i \in 1..Len(chain) :
            /\ chain[i].name = name
            /\ \A j \in 1..Len(chain) : chain[j].name = name => j <= i) - 1]

\* ------------------------------------------------------------- resolution
SetDynamicResolution(dynamic_resolution) ==
    /\ Running
    /\ dynamic' = dynamic_resolution
    /\ lastOp' = Op("set_dynamic", "ok")
    /\ drawLog' = <<>>
    /\ UNCHANGED <<final_stage, uniform_holder, status, resolution, render_chain, render_buffer_list,
                   filter_list, frame>>

\* a set_resolution that looks at the resolution only
NoOpWhenEqual(res, current, dyn) == res = current

\* the early return of set_resolution
NoOpResolution(res, current, dyn) == res = current \/ ~dyn

\* a rebuilding loop that allocates at the resolution of before the call
RebuiltAtOldSize(chain, res, failAt) ==
    LET n == IF failAt = 0 THEN Len(chain) ELSE failAt - 1
    IN [i \in 1..n |-> NewPair(i, chain[i], resolution)]

\* the rebuilding loop of set_resolution: one pair per stage, pushed in
\* order, until the allocation for stage failAt (1-based, 0: none) fails
RebuiltList(chain, res, failAt) ==
    LET n == IF failAt = 0 THEN Len(chain) ELSE failAt - 1
    IN [i \in 1..n |-> NewPair(i, chain[i], res)]

\* a set_resolution that keeps the old pairs
KeptList(list) == list

\* what set_resolution leaves in render_buffer_list before it rebuilds
ClearedList(list) == <<>>

SetResolution(res, failAt) ==
    /\ Running
    /\ IF NoOpResolution(res, resolution, dynamic)
       THEN /\ failAt = 0
            /\ lastOp' = Op("set_resolution", "ok")
            /\ UNCHANGED <<resolution, render_buffer_list>>
       ELSE /\ resolution' = res
            /\ render_buffer_list' =
                   ClearedList(render_buffer_list)
                       \o RebuiltList(render_chain, res, failAt)
            /\ lastOp' = IF failAt = 0 THEN Op("set_resolution", "ok")
                         ELSE Failed("set_resolution", "err", "alloc")
    /\ drawLog' = <<>>
    /\ UNCHANGED <<final_stage, uniform_holder, status, dynamic, render_chain, filter_list, frame>>

\* ------------------------------------------------------ ShaderView::update
\* an external edit of a watched shader file, picked up by Shader::update
EditShader(name, which, t) ==
    /\ Running
    /\ IF which = "Vertex"
       THEN /\ t # filter_list[name].vertex_shader.text
            /\ filter_list' = [filter_list EXCEPT ![name].vertex_shader =
                                  [@ EXCEPT !.text = t, !.changed = TRUE]]
       ELSE /\ t # filter_list[name].fragment_shader.text
            /\ filter_list' = [filter_list EXCEPT ![name].fragment_shader =
                                  [@ EXCEPT !.text = t, !.changed = TRUE]]
    /\ lastOp' = Op("edit", "ok")
    /\ drawLog' = <<>>
    /\ UNCHANGED <<final_stage, uniform_holder, status, resolution, dynamic, render_chain, render_buffer_list,
                   frame>>

\* ------------------------------------------------------- stage variables
\* the stage at stage_index with its variable_list entry of variable_name
\* set to variable_value (inserted with no automation and no offset)
WithValue(stage, variable_name, variable_value) ==
    [stage EXCEPT !.variable_list =
        Put(@, variable_name,
            IF variable_name \in DOMAIN stage.variable_list
            THEN [stage.variable_list[variable_name] EXCEPT !.value = variable_value]
            ELSE Variable(variable_value, "None", NoOffset))]

\* get_render_chain()[stage_index].set_variable_value(display, name, value)
SetVariableValue(stage_index, variable_name, variable_value, buildFail) ==
    /\ Running
    /\ stage_index < Len(render_chain)
    /\ LET stage == WithValue(render_chain[stage_index + 1], variable_name,
                              variable_value)
           conv == TryFrom(variable_value, buildFail)
       IN CASE conv.result = "panic" -> Panic("set_variable_value", "convert")
            [] conv.result = "err" ->
                 /\ render_chain' = [render_chain EXCEPT ![stage_index + 1] = stage]
                 /\ lastOp' = Failed("set_variable_value", "err", "stage")
                 /\ drawLog' = <<>>
                 /\ UNCHANGED <<final_stage, uniform_holder, status, resolution, dynamic,
                                render_buffer_list, filter_list, frame>>
            [] OTHER ->
                 /\ render_chain' =
                        [render_chain EXCEPT ![stage_index + 1] =
                            [stage EXCEPT !.uniform_list =
                                Put(@, variable_name, conv.holder)]]
                 /\ lastOp' = Op("set_variable_value", "ok")
                 /\ drawLog' = <<>>
                 /\ UNCHANGED <<final_stage, uniform_holder, status, resolution, dynamic,
                                render_buffer_list, filter_list, frame>>

\* get_render_chain()[stage_index].set_variable_offset(name, offset)
SetVariableOffset(stage_index, variable_name, offset) ==
    /\ Running
    /\ stage_index < Len(render_chain)
    /\ render_chain' =
          IF variable_name \in DOMAIN render_chain[stage_index + 1].variable_list
          THEN [render_chain EXCEPT
                   ![stage_index + 1].variable_list[variable_name].offset = offset]
          ELSE render_chain
    /\ lastOp' = Op("set_variable_offset", "ok")
    /\ drawLog' = <<>>
    /\ UNCHANGED <<final_stage, uniform_holder, status, resolution, dynamic,
                   render_buffer_list, filter_list, frame>>

\* get_render_chain()[stage_index].set_variable_automation(name, automation)
SetVariableAutomation(stage_index, variable_name, variable_automation) ==
    /\ Running
    /\ stage_index < Len(render_chain)
    /\ render_chain' =
          IF variable_name \in DOMAIN render_chain[stage_index + 1].variable_list
          THEN [render_chain EXCEPT
                   ![stage_index + 1].variable_list[variable_name].automation =
                       variable_automation]
          ELSE render_chain
    /\ lastOp' = Op("set_variable_automation", "ok")
    /\ drawLog' = <<>>
    /\ UNCHANGED <<final_stage, uniform_holder, status, resolution, dynamic,
                   render_buffer_list, filter_list, frame>>

\* get_render_chain()[stage_index].set_name(name)
SetName(stage_index, name) ==
    /\ Running
    /\ stage_index < Len(render_chain)
    /\ render_chain' = [render_chain EXCEPT ![stage_index + 1].name = name]
    /\ lastOp' = Op("set_name", "ok")
    /\ drawLog' = <<>>
    /\ UNCHANGED <<final_stage, uniform_holder, status, resolution, dynamic,
                   render_buffer_list, filter_list, frame>>

\* a set_precision that marks the stage whatever the format
AnyFormat(new_buffer_format, buffer_format) == TRUE

\* Stage::set_precision: new_buffer_format != self.buffer_format
FormatDiffers(new_buffer_format, buffer_format) ==
    new_buffer_format # buffer_format

\* Stage::set_precision(precision)
PrecisionSet(stage, precision) ==
    LET new_buffer_format == BufferFormat(precision)
    IN IF FormatDiffers(new_buffer_format, stage.buffer_format)
       THEN [stage EXCEPT !.buffer_format = new_buffer_format,
                          !.recreate_buffers = TRUE]
       ELSE stage

\* get_render_chain()[stage_index].set_precision(precision)
SetPrecision(stage_index, precision) ==
    /\ Running
    /\ stage_index < Len(render_chain)
    /\ render_chain' = [render_chain EXCEPT ![stage_index + 1] =
                            PrecisionSet(@, precision)]
    /\ lastOp' = Op("set_precision", "ok")
    /\ drawLog' = <<>>
    /\ UNCHANGED <<final_stage, uniform_holder, status, resolution, dynamic,
                   render_buffer_list, filter_list, frame>>

\* Automation::apply(value, beat): Automation::None replaces nothing; what a
\* curve returns at this beat is autoOut (NoValue: None)
Apply(automation, value, autoOut) ==
    IF automation = "None" THEN NoValue ELSE autoOut

\* Stage::update, the offset step: the value after it, and whether it acted
OffsetHit(var, env) ==
    var.offset # NoOffset /\ var.offset.reference \in DOMAIN env

Offsetted(var, env) ==
    IF OffsetHit(var, env)
    THEN DataAdd(var.value, DataMul(var.offset.weight, env[var.offset.reference]))
    ELSE var.value

\* Stage::update, the value a variable resolves to in this frame
Resolved(var, env, autoOut) ==
    LET applied == Apply(var.automation, Offsetted(var, env), autoOut)
    IN IF applied # NoValue THEN applied ELSE Offsetted(var, env)

\* a variable_changed that compares the automated value with the value
\* resolved before it
ChangedWhenUnequal(var, env, autoOut) ==
    \/ OffsetHit(var, env)
    \/ /\ Apply(var.automation, Offsetted(var, env), autoOut) # NoValue
       /\ Apply(var.automation, Offsetted(var, env), autoOut) # Offsetted(var, env)

\* Stage::update, variable_changed
VariableChanged(var, env, autoOut) ==
    \/ OffsetHit(var, env)
    \/ Apply(var.automation, Offsetted(var, env), autoOut) # NoValue

\* Stage::update over the variables in order: the stage afterwards, how the
\* call returns ("ok" | "err" | "panic") and the uniforms it rebuilt
RECURSIVE StageUpdateFrom(_, _, _, _, _)
StageUpdateFrom(stage, order, env, autoOut, buildFail) ==
    IF order = <<>>
    THEN [stage |-> stage, result |-> "ok", rebuilt |-> {}]
    ELSE LET name == Head(order)
             var == stage.variable_list[name]
             conv == TryFrom(Resolved(var, env, autoOut), buildFail)
         IN IF ~VariableChanged(var, env, autoOut)
            THEN StageUpdateFrom(stage, Tail(order), env, autoOut, buildFail)
            ELSE IF conv.result # "ok"
            THEN [stage |-> stage, result |-> conv.result, rebuilt |-> {}]
            ELSE LET rest == StageUpdateFrom(
                                 [stage EXCEPT !.uniform_list =
                                     Put(@, name, conv.holder)],
                                 Tail(order), env, autoOut, buildFail)
                 IN [rest EXCEPT !.rebuilt = @ \cup {name}]

\* the order in which a stage visits its variables under the order `order`
\* of all variable names
VisitOrder(stage, order) ==
    SelectSeq(order, LAMBDA n : n \in DOMAIN stage.variable_list)

\* Stage::update(display, env_variable_list, beat)
StageUpdate(stage, inputs) ==
    StageUpdateFrom(stage, VisitOrder(stage, inputs.order), inputs.env,
                    inputs.autoOut, inputs.buildFail)

\* a list that leaves out the inputs of the final stage
ChainMipmapList(chain, final) ==
    {e.src : e \in {x \in UNION {chain[i].input_map : i \in 1..Len(chain)} :
                        x.kind = "Mipmaps"}}

\* update and render_stages: texture_with_mipmap_list, the sources of the
\* Mipmaps inputs of the chain stages and of the final stage
TextureWithMipmapList(chain, final) ==
    {e.src : e \in {x \in UNION {chain[i].input_map : i \in 1..Len(chain)}
                             \cup final.input_map :
                        x.kind = "Mipmaps"}}

\* the ingest loop of ShaderView::update: every value the sources provide
\* is converted; a failed conversion is skipped
Ingested(holder, provided, texture_with_mipmap_list, buildFail) ==
    LET conv(n) == TryFromWith(provided[n], n \in texture_with_mipmap_list,
                               buildFail)
        kept == {n \in DOMAIN provided : conv(n).result = "ok"}
    IN [n \in DOMAIN holder \cup kept |->
           IF n \in kept THEN conv(n).holder ELSE holder[n]]

IngestPanics(provided) ==
    \E n \in DOMAIN provided : TryFrom(provided[n], FALSE).result = "panic"

\* the buffer list after the dirty-stage reallocation of stage i (1-based):
\* Vec::remove(i), then Vec::insert(i, pair)
Reallocated(list, i, pair) == InsertAt(RemoveAt(list, i - 1), i - 1, pair)

\* the stage loop of ShaderView::update from stage i (1-based) on; allocFailAt
\* names the stage whose allocation fails, inputs is what Stage::update is
\* called with and meets
RECURSIVE UpdateStages(_, _, _, _, _, _)
UpdateStages(i, chain, list, res, allocFailAt, inputs) ==
    IF i > Len(chain)
    THEN [chain |-> chain, list |-> list, result |-> "ok", error |-> "none"]
    ELSE IF chain[i].recreate_buffers /\ i > Len(list)
    THEN [chain |-> chain, list |-> list, result |-> "panic", error |-> "index"]
    ELSE IF chain[i].recreate_buffers /\ allocFailAt = i
    THEN [chain |-> chain, list |-> RemoveAt(list, i - 1), result |-> "err",
          error |-> "alloc"]
    ELSE LET dirty == chain[i].recreate_buffers
             list1 == IF dirty
                      THEN Reallocated(list, i,
                               NewPair(FreshPair(RemoveAt(list, i - 1)),
                                       chain[i], res))
                      ELSE list
             chain1 == [chain EXCEPT ![i].recreate_buffers = FALSE]
             su == StageUpdate(chain1[i], inputs)
         IN IF su.result = "panic"
            THEN [chain |-> chain1, list |-> list1, result |-> "panic",
                  error |-> "convert"]
            ELSE IF su.result = "err"
            THEN [chain |-> [chain1 EXCEPT ![i] = su.stage], list |-> list1,
                  result |-> "err", error |-> "stage"]
            ELSE UpdateStages(i + 1, [chain1 EXCEPT ![i] = su.stage],
                              list1, res, allocFailAt, inputs)

\* ShaderView::update: every filter updated, then the stage loop
Update(checkErrV, checkErrF, kind, message, shader_type, outcome, allocFailAt, inputs) ==
    /\ Running
    /\ checkErrV => filter_list["f"].vertex_shader.changed
    /\ checkErrF => filter_list["f"].fragment_shader.changed
    /\ allocFailAt # 0 => render_chain[allocFailAt].recreate_buffers
    /\ LET fu == FilterUpdate(SetFrameCount(filter_list["f"], inputs.frame_count),
                              checkErrV, checkErrF, kind, message, shader_type,
                              outcome)
           su == UpdateStages(1, render_chain, render_buffer_list,
                              resolution, allocFailAt, inputs)
       IN IF IngestPanics(inputs.provided)
          THEN Panic("update", "convert")
          ELSE IF fu.panic \/ su.result = "panic"
          THEN PanicWith([op |-> "update", result |-> "panic",
                          error |-> IF fu.panic THEN "diagnostic" ELSE su.error,
                          compile |-> fu.compile, shot |-> NoShot,
                          source |-> NoSource, draw |-> <<>>])
          ELSE /\ uniform_holder' =
                     Ingested(uniform_holder, inputs.provided,
                              TextureWithMipmapList(render_chain, final_stage),
                              inputs.buildFail)
               /\ filter_list' = [filter_list EXCEPT !["f"] = fu.filter]
               /\ render_chain' = su.chain
               /\ render_buffer_list' = su.list
               /\ lastOp' = [op |-> "update", result |-> su.result,
                             error |-> su.error, compile |-> fu.compile,
                             shot |-> NoShot, source |-> NoSource, draw |-> <<>>]
               /\ drawLog' = <<>>
               /\ UNCHANGED <<final_stage, status, resolution, dynamic, frame>>

\* ----------------------------------------------------------- render_stages
\* the lookup of render_stage: the last chain stage named name (1-based), 0: none
StageIndexOf(chain, name) ==
    LET hits == {i \in 1..Len(chain) : chain[i].name = name}
    IN IF hits = {} THEN 0 ELSE CHOOSE i \in hits : \A j \in hits : j <= i

\* a render_stage that hands out the back texture
BackTexture(pair) == pair.tex[2]

\* which texture of a pair render_stage hands to the filter as an input
InputTexture(pair) == pair.tex[1]

\* render_stage: the render targets resolved from the stage's input_map
RenderBuffers(stage, chain, list) ==
    {[uniform |-> e.uniform, src |-> e.src,
      index |-> StageIndexOf(chain, e.src) - 1,
      tex |-> InputTexture(list[StageIndexOf(chain, e.src)]).id,
      content |-> InputTexture(list[StageIndexOf(chain, e.src)]).content,
      mipmaps |-> InputTexture(list[StageIndexOf(chain, e.src)]).mipmaps] :
        e \in {x \in stage.input_map :
                  /\ StageIndexOf(chain, x.src) # 0
                  /\ StageIndexOf(chain, x.src) <= Len(list)}}

\* Filter::render: of the render targets, those under a declared input name
BoundTargets(filter, render_buffers) ==
    {b \in render_buffers : b.uniform \in filter.inputs}

\* a render_stage that does not look into the uniform cache
InputHolderOwn(stage, chain, holder) ==
    [n \in DOMAIN stage.uniform_list |->
        [value |-> stage.uniform_list[n], sampling |-> "None"]]

\* render_stage: input_holder, the inputs that name no chain stage and are
\* in the uniform cache, then every stage uniform inserted over them
InputHolder(stage, chain, holder) ==
    LET cached == {e \in stage.input_map :
                      StageIndexOf(chain, e.src) = 0 /\ e.src \in DOMAIN holder}
    IN [n \in {e.uniform : e \in cached} \cup DOMAIN stage.uniform_list |->
           IF n \in DOMAIN stage.uniform_list
           THEN [value |-> stage.uniform_list[n], sampling |-> "None"]
           ELSE LET e == CHOOSE x \in cached : x.uniform = n
                IN [value |-> holder[e.src], sampling |-> e.kind]]

\* Filter::render, the match on a UniformHolder: a buffer or a texture is
\* pushed only with a sampling, the primitive values always
Pushed(entry) ==
    \/ entry.value.kind \notin {"Buffer", "Texture", "TextureMipmaps"}
    \/ entry.sampling # "None"

\* Filter::render: the names of the first loop (the declared inputs that
\* have a render target or an input value) and of the second loop (the
\* filter's own names, not yet loaded, that have an input value)
LoadedInputs(filter, input_uniform_holder, render_buffers) ==
    {n \in filter.inputs :
        \/ n \in {b.uniform : b \in render_buffers}
        \/ n \in DOMAIN input_uniform_holder}

LoadedOwn(filter, input_uniform_holder, render_buffers) ==
    {n \in DOMAIN filter.uniform_holder :
        /\ n \notin LoadedInputs(filter, input_uniform_holder, render_buffers)
        /\ n \in DOMAIN input_uniform_holder}

\* texture.sampled() of the render target with the identity tex = <<pair, k>>
Sampled(tex) == [kind |-> "Sampler", v |-> 2 * tex[1] + tex[2]]

\* Filter::render: the uniform set handed to the draw
UniformSet(filter, input_uniform_holder, render_buffers) ==
    LET targets == BoundTargets(filter, render_buffers)
        first == LoadedInputs(filter, input_uniform_holder, render_buffers)
        second == LoadedOwn(filter, input_uniform_holder, render_buffers)
        inputNames == {n \in first \cup second :
                          /\ n \notin {b.uniform : b \in targets}
                          /\ Pushed(input_uniform_holder[n])}
        ownNames == {n \in DOMAIN filter.uniform_holder :
                        /\ n \notin first \cup second
                        /\ Pushed(filter.uniform_holder[n])}
    IN {[name |-> b.uniform, category |-> "target",
         value |-> Sampled(b.tex)] : b \in targets}
       \cup {[name |-> n, category |-> "input",
               value |-> input_uniform_holder[n].value] : n \in inputNames}
       \cup {[name |-> n, category |-> "default",
               value |-> filter.uniform_holder[n].value] : n \in ownNames}

\* one draw of render_stage into target, as the log keeps it
DrawEntry(i, stage, chain, list, f, ok) ==
    [index |-> i - 1, sid |-> stage.sid, name |-> stage.name, frame |-> f,
     ok |-> ok, draws |-> list[i].draws, target |-> list[i].tex[2].id,
     supplied |-> RenderBuffers(stage, chain, list),
     bound |-> BoundTargets(filter_list[stage.filter],
                            RenderBuffers(stage, chain, list)),
     input_holder |-> InputHolder(stage, chain, uniform_holder),
     defaults |-> filter_list[stage.filter].uniform_holder,
     uniforms |-> UniformSet(filter_list[stage.filter],
                             InputHolder(stage, chain, uniform_holder),
                             RenderBuffers(stage, chain, list)),
     program |-> filter_list[stage.filter].program]

\* the completed draw: the target texture holds this stage's output
Drawn(pair, sid, f) ==
    [pair EXCEPT !.tex[2].content = [by |-> sid, frame |-> f],
                 !.draws = @ + 1]

\* a render_stages that leaves the pair as it is
NotRotated(pair) == pair

\* tmp = pack.remove(0); pack.push(tmp)
Rotated(pair) == [pair EXCEPT !.tex = <<pair.tex[2], pair.tex[1]>>]

\* a render_stages that rotates the pair of the stage whose draw failed
RotatedAfterFailure(list, i) == [list EXCEPT ![i] = Rotated(list[i])]

\* render_stages when the draw of stage i fails: the error is returned by ?
\* before the rotation
AfterFailedDraw(list, i) == list

\* render_target_pack[0].generate_mipmaps() in the call f: the levels are
\* built of what the front texture holds
GenerateMipmaps(pair, f) ==
    [pair EXCEPT !.tex[1].mipmaps = [of |-> pair.tex[1].content, at |-> f]]

\* render_stages, after the draw of a stage that has a pair: the rotation,
\* then the mipmaps of the new front texture if the stage's name is listed
RotatedWithMipmaps(pair, name, texture_with_mipmap_list, f) ==
    IF name \in texture_with_mipmap_list
    THEN GenerateMipmaps(Rotated(pair), f)
    ELSE Rotated(pair)

\* the stage loop of render_stages from stage i (1-based) on; the draw of
\* stage failAt (0: none) fails
RECURSIVE RenderLoop(_, _, _, _, _, _, _)
RenderLoop(i, chain, list, log, f, failAt, texture_with_mipmap_list) ==
    IF i > Len(chain) THEN [list |-> list, log |-> log, result |-> "ok"]
    ELSE LET stage == chain[i]
             hasPair == i <= Len(list)
             draws == hasPair /\ stage.filter \in FilterNames
         IN IF draws /\ failAt = i
            THEN [list |-> AfterFailedDraw(list, i),
                  log |-> Append(log, DrawEntry(i, stage, chain, list, f, FALSE)),
                  result |-> "err"]
            ELSE LET list1 == IF draws
                              THEN [list EXCEPT ![i] = Drawn(list[i], stage.sid, f)]
                              ELSE list
                     list2 == IF hasPair
                              THEN [list1 EXCEPT ![i] =
                                      RotatedWithMipmaps(list1[i], stage.name,
                                          texture_with_mipmap_list, f)]
                              ELSE list1
                     log1 == IF draws
                             THEN Append(log, DrawEntry(i, stage, chain, list, f, TRUE))
                             ELSE log
                 IN RenderLoop(i + 1, chain, list2, log1, f, failAt,
                               texture_with_mipmap_list)

RenderStages(failAt) ==
    /\ Running
    /\ LET r == RenderLoop(1, render_chain, render_buffer_list, <<>>,
                           frame + 1, failAt,
                           TextureWithMipmapList(render_chain, final_stage))
       IN /\ failAt # 0 => r.result = "err"
          /\ render_buffer_list' = r.list
          /\ drawLog' = r.log
          /\ lastOp' = IF r.result = "ok" THEN Op("render_stages", "ok")
                       ELSE Failed("render_stages", "err", "draw")
    /\ frame' = frame + 1
    /\ UNCHANGED <<final_stage, uniform_holder, status, resolution, dynamic, render_chain, filter_list>>

\* RenderTarget::Window: the display surface, no texture of any pair
Window == <<0, 0>>

\* the draw of render_stage on the final stage, as lastOp keeps it
FinalDrawEntry(stage, chain, list, f, ok) ==
    [sid |-> stage.sid, name |-> stage.name, frame |-> f, ok |-> ok,
     target |-> Window,
     supplied |-> RenderBuffers(stage, chain, list),
     bound |-> BoundTargets(filter_list[stage.filter],
                            RenderBuffers(stage, chain, list)),
     input_holder |-> InputHolder(stage, chain, uniform_holder),
     uniforms |-> UniformSet(filter_list[stage.filter],
                             InputHolder(stage, chain, uniform_holder),
                             RenderBuffers(stage, chain, list)),
     program |-> filter_list[stage.filter].program,
     frame_count |-> filter_list[stage.filter].frame_count]

\* a render_final_stage that rotates every pair after its draw
RotatedAfterFinalDraw(list) == [i \in 1..Len(list) |-> Rotated(list[i])]

\* render_final_stage: the pairs after the draw to the window, none rotated
AfterFinalDraw(list) == list

\* render_final_stage(display, window_frame): the result of render_stage on
\* the final stage; drawFail: the backend fails the draw to the window; a
\* final stage whose filter is in no filter list draws nothing
RenderFinalStage(drawFail) ==
    /\ Running
    /\ drawFail => final_stage.filter \in FilterNames
    /\ lastOp' =
          [(IF drawFail THEN Failed("render_final_stage", "err", "draw")
            ELSE Op("render_final_stage", "ok"))
           EXCEPT !.draw =
              IF final_stage.filter \in FilterNames
              THEN <<FinalDrawEntry(final_stage, render_chain, render_buffer_list,
                                    frame, ~drawFail)>>
              ELSE <<>>]
    /\ render_buffer_list' =
          IF drawFail THEN render_buffer_list ELSE AfterFinalDraw(render_buffer_list)
    /\ drawLog' = <<>>
    /\ UNCHANGED <<final_stage, uniform_holder, status, resolution, dynamic, render_chain,
                   filter_list, frame>>

\* --------------------------------------------------------- take_screenshot
\* the stages take_screenshot compares with stage_name: those that
\* render_chain.iter().zip(&render_buffer_list) yields (1-based)
Zipped(chain, list) ==
    {i \in 1..Len(chain) : i <= Len(list)}

\* take_screenshot: texture_list[0]
ShotTexture(pair) == pair.tex[1]

\* take_screenshot(stage_name): None, or the read-back (Ok or Err) of the
\* first zipped stage of that name
TakeScreenshot(stage_name, readFail) ==
    /\ Running
    /\ LET hits == {i \in Zipped(render_chain, render_buffer_list) :
                       render_chain[i].name = stage_name}
           first == CHOOSE i \in hits : \A j \in hits : i <= j
       IN /\ readFail => hits # {}
          /\ lastOp' =
                IF hits = {}
                THEN Op("take_screenshot", "none")
                ELSE [Op("take_screenshot",
                         IF readFail THEN "some_err" ELSE "some_ok")
                         EXCEPT !.shot =
                            [name |-> stage_name,
                             tex |-> ShotTexture(render_buffer_list[first]).id,
                             content |->
                                ShotTexture(render_buffer_list[first]).content]]
    /\ drawLog' = <<>>
    /\ UNCHANGED <<final_stage, uniform_holder, status, resolution, dynamic, render_chain,
                   render_buffer_list, filter_list, frame>>

\* -------------------------------------------------------------------- Next
\* what the backend and parse_error_message may do in one Filter::update of
\* filter: <<kind, message, shader_type, outcome>>; without a failing
\* recompilation there is no diagnostic
CompileInputs(filter, checkErrV, checkErrF) ==
    LET fu == FilterUpdate(filter, checkErrV, checkErrF, "linking", <<"e">>,
                           "Vertex", "ok")
    IN IF fu.compile = "fail"
       THEN UNION {{<<e[1], e[2], t, o>> :
                       o \in ParseErrorMessage(e[1], e[2], t,
                                               fu.filter.vertex_text,
                                               fu.filter.fragment_text)} :
                   e \in CompileErrors, t \in ShaderTypes}
       ELSE {<<"linking", <<"e">>, "Vertex", "ok">>}

\* ShaderView::new over the chains and the filter variables given; buildFail
\* is chosen only where a buffer is built
\* a filter of one vertex and one fragment file, both in the filter's own
\* directory or the fragment file nowhere
QuietSources ==
    {FilterSource(PathList, <<"a">>, <<"a">>, {<<"local", "a">>}),
     FilterSource(PathList, <<"a">>, <<"a">>, {})}

\* a final stage that draws the filter "f" with no input
QuietFinal == VarStageConfig("final", "f", {}, <<>>)

NewActionFrom(chains, finals, filterVariables, resolutions, dynamics, sources) ==
    /\ status = "init"
    /\ \E cc \in chains, fsc \in finals, fvars \in filterVariables, res \in resolutions,
          dyn \in dynamics, source \in sources, vt \in InitTexts, ft \in InitTexts,
          bufferFail \in BOOLEAN, allocFail \in BOOLEAN, buildFail \in BOOLEAN :
            /\ allocFail => Len(cc) > 0
            /\ \E orders \in ChainOrders(cc \o <<fsc>>) :
                  /\ allocFail => ChainResult(1, cc, orders, buildFail) = "ok"
                  /\ buildFail =>
                        \/ ChainResult(1, cc \o <<fsc>>, orders, buildFail) = "err"
                        \/ FilterDefaults(fvars, TRUE) # FilterDefaults(fvars, FALSE)
                  /\ New(cc, fsc, fvars, res, dyn, source, vt, ft, bufferFail,
                         allocFail, orders, buildFail)

\* filters of one or two files per shader, over every file system
FileLists ==
    {<<f>> : f \in ShaderFiles} \cup {<<f, g>> : f \in ShaderFiles, g \in ShaderFiles}
FileSources ==
    {FilterSource(PathList, <<v>>, fs, exists) :
        v \in ShaderFiles, fs \in FileLists, exists \in FileSystems}

NewActionWith(chains, filterVariables, resolutions, dynamics) ==
    NewActionFrom(chains, {QuietFinal}, filterVariables, resolutions, dynamics,
                  QuietSources)

NewAction(chains, resolutions, dynamics) ==
    NewActionWith(chains, {<<>>}, resolutions, dynamics)

RemoveAction == \E i \in 0..Len(render_chain) : RemoveRenderStage(i)

MoveAction ==
    \E o \in 0..Len(render_chain), t \in 0..Len(render_chain) :
        MoveRenderStage(o, t)

AddAction(configs) ==
    \E config \in configs, allocFail \in BOOLEAN :
        AddRenderStage(config, allocFail)

SetDynamicAction == \E b \in BOOLEAN : SetDynamicResolution(b)

SetResolutionAction ==
    \E res \in Resolutions, failAt \in 0..Len(render_chain) :
        SetResolution(res, failAt)

EditAction ==
    \/ \E t \in Texts : EditShader("f", "Vertex", t)
    \/ \E t \in FragmentTexts : EditShader("f", "Fragment", t)

\* what one ShaderView::update is called with and meets: the environment,
\* the caller's frame_count (0 unless a frame set says otherwise),
\* what a curve returns at this beat, whether the backend builds buffers,
\* the order of HashMap iteration, what the sources provide
FrameInputs(envs, autoOuts, provideds) ==
    [env : envs, autoOut : autoOuts, buildFail : BOOLEAN,
     order : Orders(VariableNames), provided : provideds, frame_count : {0}]

\* a frame with no environment, no curve value and no source
QuietFrames == {f \in FrameInputs({<<>>}, {NoValue}, {<<>>}) : ~f.buildFail}

UpdateAction(frames) ==
    \E checkErrV \in BOOLEAN, checkErrF \in BOOLEAN,
       allocFailAt \in 0..Len(render_chain), inputs \in frames :
        \E c \in CompileInputs(filter_list["f"], checkErrV, checkErrF) :
            Update(checkErrV, checkErrF, c[1], c[2], c[3], c[4],
                   allocFailAt, inputs)

RenderStagesAction(maxFrames) ==
    /\ frame < maxFrames
    /\ \E failAt \in 0..Len(render_chain) : RenderStages(failAt)

\* the values, offsets, environments and curve values of the model: base
\* 2.0 or 3.0, weight 0.5, the reference "r" at 4.0, a curve returning 2.0
\* or 5.0
VariableValues == {Float(4), Float(6), FloatArray(4), Unsupported}
Offsets == {NoOffset, Offset("r", Float(1))}
Automations == {"None", "Curve"}
Envs == {<<>>, [r |-> Float(8)]}
AutoOuts == {NoValue, Float(4), Float(10)}
StageFrames == FrameInputs(Envs, AutoOuts, {<<>>})

\* a stage with the variable v, fed back on itself
VariableStageConfig(value, automation, offset) ==
    VarStageConfig("A", "f", {[uniform |-> "in0", kind |-> "Linear", src |-> "A"]},
                   [v |-> Variable(value, automation, offset)])

VariableChainConfigs ==
    {<<VariableStageConfig(Float(4), "None", Offset("r", Float(1)))>>,
     <<VariableStageConfig(FloatArray(4), "Curve", NoOffset)>>,
     <<VariableStageConfig(Unsupported, "None", NoOffset)>>}

\* the variables of the filter: none, or the default of "gain" (a number,
\* an array, a variant without conversion)
FilterVariables ==
    {<<>>, [gain |-> Float(2)], [gain |-> FloatArray(2)], [gain |-> Unsupported]}

\* what the source "cam" provides in a frame
Provided == {<<>>, [cam |-> Float(6)], [cam |-> FloatArray(6)], [cam |-> Unsupported]}
UniformFrames == FrameInputs({<<>>}, {NoValue}, Provided)
StageIngestFrames == FrameInputs(Envs, AutoOuts, Provided)

UniformStageConfig(uniform, src, variables) ==
    VarStageConfig("A", "f", {[uniform |-> uniform, kind |-> "Linear", src |-> src]},
                   variables)

\* one stage whose input is under the declared name "v" or under the
\* filter's own name "gain", fed by the stage itself or by the source
\* "cam", with or without a stage variable of the input's name
UniformChainConfigs ==
    {<<UniformStageConfig(u, src, variables)>> :
        u \in {"v", "gain"}, src \in {"A", "cam"},
        variables \in {<<>>, [v |-> Variable(Float(4), "None", NoOffset)]}}

\* a stage and a final stage with one input, sampled Linear or with
\* mipmaps, fed by the stage "A" or by the sources "cam" and "pic"
IngestStageConfig(name, kind, src) ==
    VarStageConfig(name, "f", {[uniform |-> "in0", kind |-> kind, src |-> src]}, <<>>)
IngestChainConfigs ==
    {<<IngestStageConfig("A", kind, src)>> :
        kind \in {"Linear", "Mipmaps"}, src \in {"cam", "A"}}
FinalConfigs ==
    {QuietFinal, IngestStageConfig("final", "Mipmaps", "pic"),
     IngestStageConfig("final", "Linear", "cam")}

\* what the sources provide in a frame: textures and a number
IngestProvided ==
    {<<>>, [cam |-> Texture(1)], [cam |-> Texture(2)], [pic |-> Texture(1)],
     [cam |-> Texture(1), pic |-> Texture(2)], [cam |-> Float(6)]}
IngestFrames == FrameInputs({<<>>}, {NoValue}, IngestProvided)
CacheFrames ==
    {f \in FrameInputs({<<>>}, {NoValue}, {<<>>, [cam |-> Texture(1)]}) : ~f.buildFail}

SetVariableValueAction ==
    \E i \in 0..(Len(render_chain) - 1), n \in VariableNames,
       value \in VariableValues, buildFail \in BOOLEAN :
        /\ buildFail => TryFrom(value, buildFail).result = "err"
        /\ SetVariableValue(i, n, value, buildFail)

SetVariableOffsetAction ==
    \E i \in 0..(Len(render_chain) - 1), n \in VariableNames, o \in Offsets :
        SetVariableOffset(i, n, o)

SetVariableAutomationAction ==
    \E i \in 0..(Len(render_chain) - 1), n \in VariableNames, a \in Automations :
        SetVariableAutomation(i, n, a)

Precisions == {"U8", "F16", "F32"}

SetPrecisionAction ==
    \E i \in 0..(Len(render_chain) - 1), precision \in Precisions :
        SetPrecision(i, precision)

StageNames == {"A", "B"}

SetNameAction ==
    \E i \in 0..(Len(render_chain) - 1), name \in StageNames : SetName(i, name)

\* final stages: no input, the chain stage "A" or the source "cam" as input
\* (with a variable of their own or without), or a filter in no filter list
FinalDrawConfigs ==
    {QuietFinal, VarStageConfig("final", "nofilter", {}, <<>>)}
    \cup {VarStageConfig("final", "f",
                         {[uniform |-> "in0", kind |-> "Linear", src |-> src]},
                         variables) :
            src \in {"A", "cam"},
            variables \in {<<>>, [v |-> Variable(Float(4), "None", NoOffset)]}}

\* the chains under a final stage: A alone, A then B reading A
FinalChainConfigs ==
    {<<StageConfig("A", "f", {})>>,
     <<StageConfig("A", "f", {}), StageConfig("B", "f", {"A"})>>}

\* the caller's frame counts
FrameCounts == 0..MaxFrames

\* frames in which the caller passes a frame count and "cam" may provide
CountedFrames ==
    {[f EXCEPT !.frame_count = c] :
        f \in {g \in FrameInputs({<<>>}, {NoValue}, {<<>>, [cam |-> Texture(1)]}) :
                  ~g.buildFail},
        c \in FrameCounts}

\* chains and final stages with mipmapped inputs: A alone (on the filter or
\* on a filter in no filter list), A then B reading A (Linear or with
\* mipmaps), under a final stage reading nothing, A or B with mipmaps
MipmapChainConfigs ==
    {<<VarStageConfig("A", filter, {}, <<>>)>> : filter \in {"f", "nofilter"}}
    \cup {<<StageConfig("A", "f", {}), IngestStageConfig("B", kind, "A")>> :
            kind \in {"Linear", "Mipmaps"}}
MipmapFinalConfigs ==
    {QuietFinal, IngestStageConfig("final", "Mipmaps", "A"),
     IngestStageConfig("final", "Mipmaps", "B")}

\* final stages with the variable v: offset by the reference "r", or under
\* a curve
VariableFinalConfigs ==
    {VarStageConfig("final", "f", {}, [v |-> Variable(Float(4), automation, offset)]) :
        automation \in Automations, offset \in Offsets}

RenderFinalStageAction == \E drawFail \in BOOLEAN : RenderFinalStage(drawFail)

ScreenshotNames == {"A", "B", "Z"}

TakeScreenshotAction ==
    \E name \in ScreenshotNames, readFail \in BOOLEAN :
        TakeScreenshot(name, readFail)

\* every operation, every configuration
Next ==
    \/ NewAction(ChainConfigs, Resolutions, BOOLEAN)
    \/ RemoveAction
    \/ MoveAction
    \/ AddAction(StageConfigs)
    \/ SetDynamicAction
    \/ SetResolutionAction
    \/ EditAction
    \/ UpdateAction(StageFrames)
    \/ RenderStagesAction(MaxFrames)
    \/ SetVariableValueAction
    \/ SetVariableOffsetAction
    \/ SetVariableAutomationAction
    \/ TakeScreenshotAction
    \/ RenderFinalStageAction
    \/ SetPrecisionAction
    \/ SetNameAction

\* the stage list: construction and the three list mutations
NextList ==
    \/ NewAction(ChainConfigs, Resolutions, BOOLEAN)
    \/ RemoveAction
    \/ MoveAction
    \/ AddAction(StageConfigs)

\* the render graph: every operation of ShaderView on the stage and buffer
\* lists, the shader files left alone
NextGraph ==
    \/ NewAction(ChainsOver(GraphStageConfigs), Resolutions, BOOLEAN)
    \/ RemoveAction
    \/ MoveAction
    \/ AddAction(GraphStageConfigs)
    \/ SetDynamicAction
    \/ SetResolutionAction
    \/ UpdateAction(QuietFrames)
    \/ RenderStagesAction(MaxGraphFrames)

\* rendering: frames over every two-stage wiring, stages moved and added
NextRender ==
    \/ NewAction(ChainConfigs, {<<640, 480>>}, {FALSE})
    \/ MoveAction
    \/ AddAction(StageConfigs)
    \/ UpdateAction(QuietFrames)
    \/ RenderStagesAction(MaxFrames)

\* live shader editing: a one-stage graph whose shader files are edited
NextFilter ==
    \/ NewAction(FilterChainConfigs, {<<640, 480>>}, {FALSE})
    \/ EditAction
    \/ UpdateAction(QuietFrames)
    \/ RenderStagesAction(MaxFrames)

\* the variables of a stage: construction, the three setters, the frame update
NextStage ==
    \/ NewActionWith(VariableChainConfigs, FilterVariables, {<<640, 480>>}, {FALSE})
    \/ SetVariableValueAction
    \/ SetVariableOffsetAction
    \/ SetVariableAutomationAction
    \/ UpdateAction(StageIngestFrames)

\* the uniforms of a draw: a filter with defaults, stages with inputs and
\* variables, sources feeding the uniform cache
NextUniform ==
    \/ NewActionWith(UniformChainConfigs, FilterVariables, {<<640, 480>>}, {FALSE})
    \/ UpdateAction(UniformFrames)
    \/ RenderStagesAction(MaxGraphFrames)

\* 3-stage chains: three names, and one name twice
RemoveChainConfigs ==
    {<<StageConfig("A", "f", {"A"}), StageConfig("B", "f", {"A"}),
       StageConfig("C", "f", {"B"})>>,
     <<StageConfig("A", "f", {"A"}), StageConfig("B", "f", {"A"}),
       StageConfig("A", "f", {"B"})>>}

\* removal from a 3-stage chain, and what the list operations make of it
NextRemove ==
    \/ NewAction(RemoveChainConfigs, {<<640, 480>>}, {FALSE})
    \/ RemoveAction
    \/ MoveAction
    \/ AddAction(StageConfigs)

\* screenshots of a graph that is built, extended, updated and rendered
NextShot ==
    \/ NewAction(ChainsOver(GraphStageConfigs), {<<640, 480>>}, {FALSE})
    \/ AddAction(GraphStageConfigs)
    \/ UpdateAction(QuietFrames)
    \/ RenderStagesAction(MaxFrames)
    \/ TakeScreenshotAction

\* the frame loop: update, the chain stages, the final stage
NextFrame ==
    \/ NewAction(ChainConfigs, {<<640, 480>>}, {FALSE})
    \/ UpdateAction(QuietFrames)
    \/ RenderStagesAction(MaxFrames)
    \/ RenderFinalStageAction

\* shader files: a one-stage graph built over every file system, then run
NextFiles ==
    \/ NewActionFrom(FilterChainConfigs, {QuietFinal}, {<<>>}, {<<640, 480>>},
                     {FALSE}, FileSources)
    \/ UpdateAction(QuietFrames)
    \/ RenderStagesAction(MaxFrames)

\* buffer precision: stages built, added, set to another precision,
\* reallocated by update and drawn
NextPrecision ==
    \/ NewAction(ChainsOver(GraphStageConfigs), {<<640, 480>>}, {FALSE})
    \/ AddAction(GraphStageConfigs)
    \/ SetPrecisionAction
    \/ UpdateAction(QuietFrames)
    \/ RenderStagesAction(MaxGraphFrames)

\* ingest: sources feeding textures to a stage and a final stage
NextIngest ==
    \/ NewActionFrom(IngestChainConfigs, FinalConfigs, {<<>>}, {<<640, 480>>},
                     {FALSE}, QuietSources)
    \/ UpdateAction(IngestFrames)
    \/ RenderStagesAction(MaxGraphFrames)

\* the uniform cache: a source feeding one stage, and every operation that
\* runs between two updates
NextCache ==
    \/ NewActionFrom({<<IngestStageConfig("A", "Linear", "cam")>>}, {QuietFinal},
                     {<<>>}, Resolutions, {TRUE}, QuietSources)
    \/ UpdateAction(CacheFrames)
    \/ RenderStagesAction(MaxGraphFrames)
    \/ RenderFinalStageAction
    \/ TakeScreenshotAction
    \/ SetResolutionAction
    \/ RemoveAction
    \/ MoveAction
    \/ AddAction({StageConfig("B", "f", {"A"})})

\* the final draw: a graph under a final stage, run frame by frame
NextFinal ==
    \/ NewActionFrom(FinalChainConfigs, FinalDrawConfigs, {<<>>}, {<<640, 480>>},
                     {FALSE}, QuietSources)
    \/ UpdateAction(CountedFrames)
    \/ RenderStagesAction(MaxFrames)
    \/ RenderFinalStageAction

\* mipmaps: graphs with mipmapped inputs, run frame by frame
NextMipmaps ==
    \/ NewActionFrom(MipmapChainConfigs, MipmapFinalConfigs, {<<>>}, {<<640, 480>>},
                     {FALSE}, QuietSources)
    \/ UpdateAction(QuietFrames)
    \/ RenderStagesAction(MaxFrames)

\* the variables of the final stage: a chain stage and a final stage that
\* both carry the variable v, run frame by frame
NextFinalVariables ==
    \/ NewActionFrom({<<VariableStageConfig(Float(4), "None", Offset("r", Float(1)))>>},
                     VariableFinalConfigs, {<<>>}, {<<640, 480>>}, {FALSE},
                     QuietSources)
    \/ UpdateAction(StageFrames)
    \/ RenderStagesAction(MaxFrames)
    \/ RenderFinalStageAction

\* stage names: stages built, added, renamed and removed
NextNames ==
    \/ NewAction(ChainConfigs, {<<640, 480>>}, {FALSE})
    \/ AddAction(StageConfigs)
    \/ SetNameAction
    \/ RemoveAction

Spec == Init /\ [][Next]_vars
SpecFinal == Init /\ [][NextFinal]_vars
SpecFinalVariables == Init /\ [][NextFinalVariables]_vars
SpecMipmaps == Init /\ [][NextMipmaps]_vars
SpecNames == Init /\ [][NextNames]_vars
SpecIngest == Init /\ [][NextIngest]_vars
SpecCache == Init /\ [][NextCache]_vars
SpecPrecision == Init /\ [][NextPrecision]_vars
SpecFiles == Init /\ [][NextFiles]_vars
SpecFrame == Init /\ [][NextFrame]_vars
SpecShot == Init /\ [][NextShot]_vars
SpecRemove == Init /\ [][NextRemove]_vars
SpecUniform == Init /\ [][NextUniform]_vars
SpecStage == Init /\ [][NextStage]_vars
SpecList == Init /\ [][NextList]_vars
SpecGraph == Init /\ [][NextGraph]_vars
SpecRender == Init /\ [][NextRender]_vars
SpecFilter == Init /\ [][NextFilter]_vars

\* ------------------------------------------------------------------ claims
\* C1: after any sequence of new, add_render_stage, remove_render_stage and
\* move_render_stage calls, render_buffer_list is as long as render_chain and
\* the pair at index i is the pair allocated for the stage now at index i, in
\* the orientation it was allocated in.
C1_BuffersFollowStages ==
    Running =>
        /\ Len(render_buffer_list) = Len(render_chain)
        /\ \A i \in 1..Len(render_chain) :
              /\ render_buffer_list[i].owner = render_chain[i].sid
              /\ render_buffer_list[i].tex[1].id = <<render_buffer_list[i].id, 0>>
              /\ render_buffer_list[i].tex[2].id = <<render_buffer_list[i].id, 1>>

\* two stages swapped by move_render_stage, each with its own pair
C1_MovedWitness ==
    /\ Running
    /\ lastOp = Op("move", "ok")
    /\ Len(render_chain) = 2
    /\ render_chain[1].sid = 2
    /\ render_chain[2].sid = 1
    /\ render_buffer_list[1].owner = 2
    /\ render_buffer_list[2].owner = 1

\* C2: in every reachable state of the view, every entry of
\* render_buffer_list holds exactly 2 textures and its recorded resolution,
\* and the size of its textures, is the view's current resolution.
C2_TwoTexturesAtResolution ==
    \A i \in 1..Len(render_buffer_list) :
        /\ Len(render_buffer_list[i].tex) = 2
        /\ render_buffer_list[i].res =
               <<AsU32(resolution[1]), AsU32(resolution[2])>>
        /\ \A k \in 1..2 :
               render_buffer_list[i].tex[k].size =
                   <<AsU32(resolution[1]), AsU32(resolution[2])>>

\* set_resolution has rebuilt the pairs of a two-stage chain after a frame
C2_ResizedWitness ==
    /\ Running
    /\ lastOp = Op("set_resolution", "ok")
    /\ dynamic
    /\ frame = 1
    /\ Len(render_buffer_list) = 2
    /\ \A i \in 1..2 : /\ render_buffer_list[i].res = <<800, 600>>
                       /\ render_buffer_list[i].draws = 0
                       /\ render_chain[i].filter = "f"

\* the stage the draw e was of names itself in the input b
SelfInput(e, b) == b.src = e.name

\* C3: during every stage draw of render_stages the texture written is none
\* of the textures supplied as inputs of that draw, and a stage naming
\* itself samples the output of its own previous draw (an empty texture
\* before its first draw), never the output of the draw in progress.
C3_NeverSamplesOwnTarget ==
    \A k \in 1..Len(drawLog) :
        LET e == drawLog[k]
        IN /\ e.target \notin {b.tex : b \in e.supplied}
           /\ \A b \in e.supplied :
                 SelfInput(e, b) =>
                     IF e.draws = 0 THEN b.content = Empty
                     ELSE /\ b.content.by = e.sid
                          /\ b.content.frame < e.frame
                          /\ b.content.frame > 0

\* the stage at 0-based index j was drawn, successfully, before entry k
DrewBefore(log, k, j) ==
    \E m \in 1..(k - 1) : log[m].index = j /\ log[m].ok

\* C4 (amended): for distinct chain stages N and M where N's input name
\* resolves to M, the texture N samples in a render_stages call is, when M is
\* declared after N, M's front texture as it stood before the call, and,
\* when M is declared before N, M's render target of this same call, which
\* holds M's output of this frame when M was drawn in this call.
C4_SamplesFrontAtDrawTime ==
    [][lastOp'.op = "render_stages" =>
         \A k \in 1..Len(drawLog') :
            LET e == drawLog'[k]
            IN \A b \in e.supplied :
                  b.index # e.index =>
                     LET before == render_buffer_list[b.index + 1]
                     IN IF b.index < e.index
                        THEN /\ b.tex = before.tex[2].id
                             /\ DrewBefore(drawLog', k, b.index) =>
                                   b.content =
                                      [by |-> render_chain[b.index + 1].sid,
                                       frame |-> frame']
                        ELSE /\ b.tex = before.tex[1].id
                             /\ b.content = before.tex[1].content]_vars

\* the second frame of a chain whose two stages read each other: the first
\* samples the second's output of frame 1, the second the first's of frame 2
C4_BothOrdersWitness ==
    /\ lastOp = Op("render_stages", "ok")
    /\ frame = 2
    /\ Len(drawLog) = 2
    /\ \E b \in drawLog[1].supplied :
          /\ b.index = 1
          /\ b.content = [by |-> drawLog[2].sid, frame |-> 1]
    /\ \E b \in drawLog[2].supplied :
          /\ b.index = 0
          /\ b.content = [by |-> drawLog[1].sid, frame |-> 2]

\* C4 as stated: the texture N samples in frame f holds M's output of frame
\* f - 1, whether M is before or after N; read on chains of uniquely named
\* stages that all have their own pair and were all drawn in every frame.
C4_SamplesPreviousFrame ==
    ( /\ lastOp = Op("render_stages", "ok")
      /\ frame >= 2
      /\ Len(render_buffer_list) = Len(render_chain)
      /\ \A i \in 1..Len(render_chain) :
            /\ render_buffer_list[i].owner = render_chain[i].sid
            /\ render_buffer_list[i].draws = frame
            /\ \A j \in 1..Len(render_chain) :
                  render_chain[i].name = render_chain[j].name => i = j )
    => \A k \in 1..Len(drawLog) :
          \A b \in drawLog[k].supplied :
             b.index # drawLog[k].index =>
                b.content = [by |-> render_chain[b.index + 1].sid,
                             frame |-> drawLog[k].frame - 1]

\* C5: for every stage, after N completed draws since its pair [T0, T1] was
\* allocated the front texture is T(N mod 2), and for N >= 1 it is the
\* texture the N-th, the latest, draw wrote.
C5_FrontIsDrawsMod2 ==
    \A i \in 1..Len(render_buffer_list) :
        LET pair == render_buffer_list[i]
        IN /\ pair.tex[1].id = <<pair.id, pair.draws % 2>>
           /\ pair.draws >= 1 =>
                 /\ pair.tex[1].content # Empty
                 /\ pair.tex[1].content.frame > pair.tex[2].content.frame

\* a chain of two stages that read each other and nothing else, every
\* buffer as allocated
MutualFresh ==
    /\ Running
    /\ Len(render_chain) = 2
    /\ Len(render_buffer_list) = 2
    /\ render_chain[1].name # render_chain[2].name
    /\ {x.src : x \in render_chain[1].input_map} = {render_chain[2].name}
    /\ {x.src : x \in render_chain[2].input_map} = {render_chain[1].name}
    /\ \A i \in 1..2 :
          /\ render_chain[i].filter \in FilterNames
          /\ render_buffer_list[i].owner = render_chain[i].sid
          /\ render_buffer_list[i].draws = 0
          /\ render_buffer_list[i].tex[1].content = Empty
          /\ render_buffer_list[i].tex[2].content = Empty

\* the frame of C6: update has returned Ok and render_stages returns Ok
MutualFrame ==
    /\ MutualFresh
    /\ lastOp.op = "update"
    /\ lastOp.result = "ok"
    /\ lastOp' = Op("render_stages", "ok")

C7_FailedCompileKeepsProgram ==
    [][(status = "running" /\ status' = "running") =>
         /\ (lastOp'.op = "update" /\ lastOp'.compile = "fail") =>
               filter_list'["f"].program = filter_list["f"].program
         /\ filter_list'["f"].program # filter_list["f"].program =>
               /\ lastOp'.op = "update"
               /\ lastOp'.compile = "ok"
               /\ Compiles(filter_list'["f"].vertex_text,
                           filter_list'["f"].fragment_text)
               /\ filter_list'["f"].program =
                      [vertex |-> filter_list'["f"].vertex_text,
                       fragment |-> filter_list'["f"].fragment_text]
         /\ lastOp'.op = "render_stages" =>
               \A k \in 1..Len(drawLog') :
                  drawLog'[k].program = filter_list["f"].program]_vars

\* a render after a recompilation that failed: the vertex shader was edited
\* to text 2, compiled, then edited to the invalid text 1
C7_RenderAfterFailureWitness ==
    /\ Running
    /\ lastOp = Op("render_stages", "ok")
    /\ filter_list["f"].vertex_text = 1
    /\ ~Compiles(filter_list["f"].vertex_text, filter_list["f"].fragment_text)
    /\ filter_list["f"].program = [vertex |-> 2, fragment |-> 0]
    /\ Len(drawLog) = 1
    /\ drawLog[1].ok
    /\ drawLog[1].program = [vertex |-> 2, fragment |-> 0]

\* C8: for every compile error raised while recompiling an edited shader,
\* whatever the shape of the diagnostic, Filter.update returns normally and
\* ShaderView.update goes on to its stage-update phase.
C8_DiagnosticNeverAborts ==
    (lastOp.op = "update" /\ lastOp.compile = "fail") =>
        lastOp.error # "diagnostic"

\* C9: when the initial shader compilation fails, ShaderView::new (through
\* Filter::from_config and Filter::new) returns an error value, it does not
\* abort the process.
C9_InitialCompileFailureIsError ==
    (lastOp.op = "new" /\ lastOp.error = "compile") => lastOp.result = "err"

\* C10: whenever a texture allocation fails in set_resolution, in the dirty
\* stage reallocation of update or in add_render_stage, the call returns an
\* error and render_chain, render_buffer_list and resolution are as before it.
C10_FailedAllocationKeepsState ==
    [][(lastOp'.error = "alloc"
          /\ lastOp'.op \in {"set_resolution", "update", "add"}) =>
         /\ lastOp'.result = "err"
         /\ UNCHANGED <<render_chain, render_buffer_list, resolution>>]_vars

\* C11: set_resolution(r) while dynamic resizing is disabled, or with r the
\* current resolution, returns Ok and leaves the resolution, the buffer
\* list, every pair's textures and orientation and every per-pair
\* resolution as they were.
C11_SetResolutionNoOp ==
    [][\A res \in Resolutions, failAt \in 0..Len(render_chain) :
          (SetResolution(res, failAt) /\ (~dynamic \/ res = resolution)) =>
             /\ lastOp' = Op("set_resolution", "ok")
             /\ UNCHANGED <<resolution, render_buffer_list, render_chain,
                            dynamic>>]_vars

\* set_resolution has returned on a static view with a drawn pair
C11_StaticWitness ==
    /\ Running
    /\ lastOp = Op("set_resolution", "ok")
    /\ ~dynamic
    /\ frame = 1
    /\ Len(render_buffer_list) >= 1
    /\ render_buffer_list[1].draws = 1
    /\ render_buffer_list[1].tex[1].content # Empty

\* C12: after a successful set_resolution(r) with dynamic resizing enabled
\* and r not the current resolution, the resolution is r and there is one
\* pair per chain stage, in stage order, of 2 newly allocated empty textures
\* of size r in that stage's buffer format.
C12_SetResolutionRebuilds ==
    [][\A res \in Resolutions :
          (SetResolution(res, 0) /\ dynamic /\ res # resolution) =>
             /\ lastOp' = Op("set_resolution", "ok")
             /\ resolution' = res
             /\ render_chain' = render_chain
             /\ Len(render_buffer_list') = Len(render_chain)
             /\ \A i \in 1..Len(render_chain) :
                   LET pair == render_buffer_list'[i]
                   IN /\ pair.owner = render_chain[i].sid
                      /\ pair.draws = 0
                      /\ pair.res = <<AsU32(res[1]), AsU32(res[2])>>
                      /\ Len(pair.tex) = 2
                      /\ pair.tex[1].id # pair.tex[2].id
                      /\ \A k \in 1..2 :
                            /\ pair.tex[k].content = Empty
                            /\ pair.tex[k].size = <<AsU32(res[1]), AsU32(res[2])>>
                            /\ pair.tex[k].format = render_chain[i].buffer_format
                            /\ \A j \in 1..Len(render_chain) :
                                  j # i => \A m \in 1..2 :
                                     render_buffer_list'[j].tex[m].id
                                        # pair.tex[k].id]_vars

\* a drawn one-stage dynamic view has been resized: its pair is new
C12_RebuiltWitness ==
    /\ Running
    /\ lastOp = Op("set_resolution", "ok")
    /\ dynamic
    /\ frame = 1
    /\ Len(render_chain) = 1
    /\ render_chain[1].filter = "f"
    /\ ~render_chain[1].recreate_buffers
    /\ Len(render_buffer_list) = 1
    /\ render_buffer_list[1].draws = 0
    /\ render_buffer_list[1].res = resolution

\* the conversion of a value the backend does not fail
Converted(value) == TryFrom(value, FALSE).holder

\* C13: Stage.update resolves each variable as base + offset_weight *
\* env[reference] when the reference is set and present, replaces the result
\* by Automation.apply(result, beat) when that returns a value, and stores
\* the result as the variable's cached uniform: after every Stage::update
\* that returns Ok, the cached uniform of every variable is the conversion
\* of the value the variable resolves to in that frame.
C13_UpdateStoresResolved ==
    \A i \in 1..Len(render_chain), inputs \in StageFrames :
        LET stage == render_chain[i]
            su == StageUpdate(stage, inputs)
        IN su.result = "ok" =>
              \A n \in DOMAIN stage.variable_list :
                 /\ n \in DOMAIN su.stage.uniform_list
                 /\ su.stage.uniform_list[n] =
                       Converted(Resolved(stage.variable_list[n], inputs.env,
                                          inputs.autoOut))

\* C14: a Stage.update for a variable whose offset reference is absent from
\* the environment and whose automation is Automation::None returns Ok and
\* leaves the cached uniform equal to the base value, in every frame.
C14_AbsentReferenceGivesBase ==
    \A i \in 1..Len(render_chain), inputs \in StageFrames :
        LET stage == render_chain[i]
            su == StageUpdate(stage, inputs)
        IN \A n \in DOMAIN stage.variable_list :
              LET var == stage.variable_list[n]
              IN (/\ var.automation = "None"
                  /\ var.offset # NoOffset
                  /\ var.offset.reference \notin DOMAIN inputs.env) =>
                     /\ su.result = "ok"
                     /\ n \in DOMAIN su.stage.uniform_list
                     /\ su.stage.uniform_list[n] = Converted(var.value)

Chosen(e, n) ==
    IF n \in {b.uniform : b \in e.supplied}
    THEN {[name |-> n, category |-> "target", value |-> Sampled(b.tex)] :
             b \in {x \in e.supplied : x.uniform = n}}
    ELSE IF n \in DOMAIN e.input_holder
    THEN IF Pushed(e.input_holder[n])
         THEN {[name |-> n, category |-> "input",
                value |-> e.input_holder[n].value]}
         ELSE {}
    ELSE IF n \in DOMAIN e.defaults /\ Pushed(e.defaults[n])
    THEN {[name |-> n, category |-> "default", value |-> e.defaults[n].value]}
    ELSE {}

\* C16: for every uniform name the uniform set of a draw holds at most one
\* value, chosen by the fixed priority render target, else input value,
\* else the filter's own default; also for a name bound both by a stage
\* input and by a stage variable.
C16_UniformPrecedence ==
    \A k \in 1..Len(drawLog) :
        LET e == drawLog[k]
            names == {b.uniform : b \in e.supplied} \cup DOMAIN e.input_holder
                        \cup DOMAIN e.defaults \cup {u.name : u \in e.uniforms}
        IN \A n \in names :
              /\ Cardinality({u \in e.uniforms : u.name = n}) <= 1
              /\ {u \in e.uniforms : u.name = n} = Chosen(e, n)

\* C17: remove_render_stage(i) on an n-stage graph removes stage i with
\* pair i and nothing else: the remaining stages keep their order and their
\* pairs, and stage_index_list maps the n-1 remaining names to 0..n-2.
C17_RemoveKeepsOthers ==
    [][\A i \in 0..(Len(render_chain) - 1) :
          (RemoveRenderStage(i) /\ i < Len(render_buffer_list)) =>
             /\ render_chain' = RemoveAt(render_chain, i)
             /\ render_buffer_list' = RemoveAt(render_buffer_list, i)
             /\ Len(render_buffer_list') = Len(render_chain')
             /\ \A j \in 1..Len(render_chain') :
                   render_buffer_list'[j].owner = render_chain'[j].sid
             /\ Cardinality(DOMAIN StageIndexList(render_chain'))
                   = Len(render_chain) - 1
             /\ {StageIndexList(render_chain')[name] :
                    name \in DOMAIN StageIndexList(render_chain')}
                   = 0..(Len(render_chain) - 2)]_vars

\* the output of the most recent completed draw of the stage sid among the
\* textures of pair (Empty: none)
LastDrawOf(pair, sid) ==
    LET drawn == {k \in 1..2 : pair.tex[k].content.by = sid}
    IN IF drawn = {} THEN Empty
       ELSE pair.tex[CHOOSE k \in drawn :
                        \A m \in drawn :
                           pair.tex[m].content.frame <= pair.tex[k].content.frame
                    ].content

\* C18: take_screenshot(name) returns None exactly when no stage is named
\* name; otherwise it reads back the texture at index 0 of that stage's
\* pair, which holds the output of that stage's most recent completed draw;
\* the state is left unchanged.
C18_ScreenshotReadsFront ==
    [][lastOp'.op = "take_screenshot" =>
          /\ UNCHANGED <<final_stage, status, resolution, dynamic, render_chain,
                         render_buffer_list, filter_list, uniform_holder, frame>>
          /\ \A name \in ScreenshotNames :
                TakeScreenshot(name, FALSE) \/ TakeScreenshot(name, TRUE) =>
                   /\ lastOp'.result = "none" <=>
                         ~\E i \in 1..Len(render_chain) : render_chain[i].name = name
                   /\ lastOp'.result # "none" =>
                         \E i \in 1..Len(render_chain) :
                            /\ render_chain[i].name = name
                            /\ \E j \in 1..Len(render_buffer_list) :
                                  /\ render_buffer_list[j].owner = render_chain[i].sid
                                  /\ lastOp'.shot.tex = render_buffer_list[j].tex[1].id
                                  /\ lastOp'.shot.content =
                                        LastDrawOf(render_buffer_list[j],
                                                   render_chain[i].sid)]_vars

\* C19: when the backend draw of stage k fails in render_stages, the error
\* is returned, the draw was attempted exactly once, no later stage is
\* drawn, and the pair of stage k is not rotated (nor any later pair); a
\* failing final draw is returned by render_final_stage.
C19_FailedDrawStopsFrame ==
    [][/\ \A failAt \in 1..Len(render_chain) :
             RenderStages(failAt) =>
                /\ lastOp' = Failed("render_stages", "err", "draw")
                /\ Len(drawLog') >= 1
                /\ ~drawLog'[Len(drawLog')].ok
                /\ drawLog'[Len(drawLog')].index = failAt - 1
                /\ \A k \in 1..(Len(drawLog') - 1) :
                      /\ drawLog'[k].ok
                      /\ drawLog'[k].index < failAt - 1
                /\ \A j \in failAt..Len(render_buffer_list) :
                      render_buffer_list'[j] = render_buffer_list[j]
       /\ RenderFinalStage(TRUE) =>
             /\ lastOp'.result = "err"
             /\ UNCHANGED <<render_chain, render_buffer_list, frame>>]_vars

\* the second stage's draw failed in the second frame, after the first
\* stage was drawn
C19_SecondDrawFailedWitness ==
    /\ Running
    /\ lastOp = Failed("render_stages", "err", "draw")
    /\ frame = 2
    /\ Len(drawLog) = 2
    /\ drawLog[1].ok
    /\ ~drawLog[2].ok
    /\ render_buffer_list[2].draws = 1
    /\ render_buffer_list[1].draws = 2

\* C20: the conversion of a DataHolder variant that UniformHolder has no
\* conversion for is an explicit failure that reaches the caller as an
\* error result, in Stage::from_config, set_variable_value, Stage::update,
\* the ingest loop of ShaderView::update and Filter::from_config.
C20_UnsupportedIsError ==
    lastOp.error = "convert" =>
       /\ lastOp.result = "err"
       /\ status # "panicked"

\* the root a listed file is taken from: the first root, in the order of
\* path_list, in which the file exists
TakenFrom(path, path_list, exists) ==
    \E i \in 1..Len(path_list) :
        /\ path[1] = path_list[i]
        /\ path \in exists
        /\ \A j \in 1..(i - 1) : <<path_list[j], path[2]>> \notin exists

\* the files of a composed shader are the listed files, in order, each from
\* the first root that has it
ResolvedInOrder(shader, files, path_list, exists) ==
    /\ Len(shader.files) = Len(files)
    /\ \A k \in 1..Len(files) :
          /\ shader.files[k].path[2] = files[k]
          /\ TakenFrom(shader.files[k].path, path_list, exists)

HasMarker(shader_file) == shader_file = "#a"

\* a marked file comes from the shared library root and is not watched; any
\* other file comes from the candidate search and is watched
FixedOrWatched(shader, path_list, exists) ==
    \A k \in 1..Len(shader.files) :
        IF HasMarker(shader.files[k].path[2])
        THEN /\ shader.files[k].path[1] = "libs"
             /\ ~shader.files[k].watch
        ELSE /\ TakenFrom(shader.files[k].path, path_list, exists)
             /\ shader.files[k].watch

\* C22: in Filter::from_config a fragment whose path starts with the
\* reserved marker is looked up only in the shared library root and is not
\* watched; every fragment without the marker is looked up through the
\* ordered candidate search and is watched.
C22_MarkedFragmentsFixed ==
    (lastOp.op = "new" /\ status = "running") =>
       /\ FixedOrWatched(filter_list["f"].vertex_shader,
                         lastOp.source.path_list, lastOp.source.exists)
       /\ FixedOrWatched(filter_list["f"].fragment_shader,
                         lastOp.source.path_list, lastOp.source.exists)

\* C23: Stage.set_precision(p) sets recreate_buffers and changes
\* buffer_format only when the format for p differs from the stage's
\* current buffer_format; called with the current precision it leaves both
\* unchanged. (No other stage and no buffer pair is touched.)
C23_DirtyOnlyOnFormatChange ==
    [][\A i \in 0..(Len(render_chain) - 1), p \in Precisions :
          SetPrecision(i, p) =>
             /\ Len(render_chain') = Len(render_chain)
             /\ \A j \in 1..Len(render_chain) :
                   j # i + 1 => render_chain'[j] = render_chain[j]
             /\ IF BufferFormat(p) = render_chain[i + 1].buffer_format
                THEN render_chain'[i + 1] = render_chain[i + 1]
                ELSE /\ render_chain'[i + 1].buffer_format = BufferFormat(p)
                     /\ render_chain'[i + 1].recreate_buffers
                     /\ render_chain'[i + 1] =
                           [render_chain[i + 1] EXCEPT
                               !.buffer_format = BufferFormat(p),
                               !.recreate_buffers = TRUE]
             /\ UNCHANGED render_buffer_list]_vars

\* set_precision called with the current precision of the one clean stage
C23_SamePrecisionWitness ==
    /\ Running
    /\ lastOp.op = "set_precision"
    /\ Len(render_chain) = 1
    /\ ~render_chain[1].recreate_buffers
    /\ render_chain[1].buffer_format = "F16F16F16F16"

\* a pair as allocated for stage at resolution res: two empty textures of
\* the stage's format, never drawn into
FreshFor(pair, stage, res) ==
    /\ pair.owner = stage.sid
    /\ pair.draws = 0
    /\ pair.res = <<AsU32(res[1]), AsU32(res[2])>>
    /\ \A k \in 1..2 :
          /\ pair.tex[k].format = stage.buffer_format
          /\ pair.tex[k].size = <<AsU32(res[1]), AsU32(res[2])>>
          /\ pair.tex[k].content = Empty

\* C24: update visits the chain stages in order; for each stage whose
\* recreate_buffers flag is set it replaces exactly that stage's pair, at
\* the same index, by a fresh pair at the current resolution in the stage's
\* current buffer format and clears the flag; after a successful update no
\* chain stage has the flag set and every pair's format matches its stage's
\* buffer_format.
C24_UpdateReallocatesDirty ==
    [][(lastOp'.op = "update" /\ lastOp'.result = "ok" /\ status' = "running") =>
          /\ Len(render_chain') = Len(render_chain)
          /\ Len(render_buffer_list') = Len(render_chain')
          /\ \A i \in 1..Len(render_chain) :
                /\ ~render_chain'[i].recreate_buffers
                /\ i <= Len(render_buffer_list') =>
                      /\ \A k \in 1..2 :
                            render_buffer_list'[i].tex[k].format =
                               render_chain'[i].buffer_format
                      /\ IF render_chain[i].recreate_buffers
                         THEN FreshFor(render_buffer_list'[i], render_chain[i],
                                       resolution)
                         ELSE /\ i <= Len(render_buffer_list)
                              /\ render_buffer_list'[i] = render_buffer_list[i]]_vars

\* the name is the source of a Mipmaps input of a chain stage or of the
\* final stage
MipmapsWanted(name, chain, final) ==
    \/ \E i \in 1..Len(chain) :
          \E e \in chain[i].input_map : e.kind = "Mipmaps" /\ e.src = name
    \/ \E e \in final.input_map : e.kind = "Mipmaps" /\ e.src = name

\* C25: in the ingest step of update every value a provider supplies
\* overwrites the uniform cache entry of its name, and mipmap generation is
\* requested for a name if and only if the name is the source of a Mipmaps
\* input of some chain stage or of the final stage.
C25_IngestOverwrites ==
    [][\A inputs \in IngestFrames :
          (/\ Update(FALSE, FALSE, "linking", <<"e">>, "Vertex", "ok", 0, inputs)
           /\ lastOp'.result = "ok") =>
             \A n \in DOMAIN inputs.provided :
                /\ n \in DOMAIN uniform_holder'
                /\ uniform_holder'[n].v = inputs.provided[n].v
                /\ inputs.provided[n].kind = "Float" =>
                      uniform_holder'[n].kind = "Float"
                /\ inputs.provided[n].kind = "Texture" =>
                      /\ uniform_holder'[n].kind \in {"Texture", "TextureMipmaps"}
                      /\ uniform_holder'[n].kind = "TextureMipmaps" <=>
                            MipmapsWanted(n, render_chain, final_stage)]_vars

\* the draws of the log were handed, for every input that names a source
\* and not a stage, the value the uniform cache holds
DrawsSeeCache(log, chain, holder) ==
    \A k \in 1..Len(log) :
       \A i \in 1..Len(chain) :
          chain[i].sid = log[k].sid =>
             \A e \in chain[i].input_map :
                (/\ StageIndexOf(chain, e.src) = 0
                 /\ e.src \in DOMAIN holder
                 /\ e.uniform \notin DOMAIN chain[i].uniform_list) =>
                   /\ e.uniform \in DOMAIN log[k].input_holder
                   /\ log[k].input_holder[e.uniform].value = holder[e.src]

\* C26: the uniform cache is written only by the ingest step of update:
\* render_stages, render_final_stage, take_screenshot, set_resolution and
\* the stage-list mutations leave it unchanged, so every draw of a frame
\* sees the same cache contents.
C26_CacheWrittenByIngestOnly ==
    [][/\ (status' = "running" /\ lastOp'.op \notin {"new", "update"}) =>
             uniform_holder' = uniform_holder
       /\ DrawsSeeCache(drawLog', render_chain', uniform_holder')]_vars

\* a frame drawn from a cache that holds the texture of the source "cam"
C26_DrawnFromCacheWitness ==
    /\ Running
    /\ lastOp = Op("render_stages", "ok")
    /\ "cam" \in DOMAIN uniform_holder
    /\ Len(drawLog) >= 1
    /\ "in0" \in DOMAIN drawLog[1].input_holder
    /\ drawLog[1].input_holder["in0"].value = uniform_holder["cam"]

\* C27: in every reachable state of a view no two stages of render_chain
\* have the same name, after any sequence of new, add_render_stage and
\* set_name, so that stage_index_list has exactly one entry per stage.
C27_StageNamesUnique ==
    Running =>
       /\ \A i, j \in 1..Len(render_chain) :
             render_chain[i].name = render_chain[j].name => i = j
       /\ Cardinality(DOMAIN StageIndexList(render_chain)) = Len(render_chain)

\* the final draw d was handed, for every input of the final stage, what a
\* chain stage is handed: the front texture of the last chain stage of that
\* name, or else the cache entry of that name under the input's sampling,
\* and every variable of the final stage over them; its target is the
\* window, which is no texture of any pair
FinalDrawResolved(d) ==
    /\ d.target = Window
    /\ \A j \in 1..Len(render_buffer_list), k \in 1..2 :
          render_buffer_list[j].tex[k].id # d.target
    /\ \A e \in final_stage.input_map :
          LET named == {i \in 1..Len(render_chain) : render_chain[i].name = e.src}
          IN IF named # {}
             THEN \A i \in named :
                     ((\A j \in named : j <= i) /\ i <= Len(render_buffer_list)) =>
                        [uniform |-> e.uniform, src |-> e.src, index |-> i - 1,
                         tex |-> render_buffer_list[i].tex[1].id,
                         content |-> render_buffer_list[i].tex[1].content,
                         mipmaps |-> render_buffer_list[i].tex[1].mipmaps]
                           \in d.supplied
             ELSE (e.src \in DOMAIN uniform_holder
                     /\ e.uniform \notin DOMAIN final_stage.uniform_list) =>
                     /\ e.uniform \in DOMAIN d.input_holder
                     /\ d.input_holder[e.uniform] =
                           [value |-> uniform_holder[e.src], sampling |-> e.kind]
    /\ \A n \in DOMAIN final_stage.uniform_list :
          /\ n \in DOMAIN d.input_holder
          /\ d.input_holder[n] =
                [value |-> final_stage.uniform_list[n], sampling |-> "None"]

\* render_final_stage drew to the window as a chain stage draws and rotated
\* no pair
FinalDrawKeepsPairs ==
    \A drawFail \in BOOLEAN :
        RenderFinalStage(drawFail) =>
           /\ final_stage.filter \in FilterNames =>
                 /\ Len(lastOp'.draw) = 1
                 /\ lastOp'.draw[1].ok = ~drawFail
                 /\ FinalDrawResolved(lastOp'.draw[1])
           /\ render_buffer_list' = render_buffer_list

\* C28 (as stated): the final draw resolves the final stage's inputs and
\* variables as a chain stage's, draws to the display surface, rotates no
\* pair, and increments the frame counter by one per completed frame.
C28_FinalDrawCountsFrame ==
    [][/\ FinalDrawKeepsPairs
       /\ RenderFinalStage(FALSE) =>
             \A n \in FilterNames :
                filter_list'[n].frame_count = filter_list[n].frame_count + 1]_vars

\* C28 (amended): the final draw resolves the final stage's inputs and
\* variables as a chain stage's, draws to the display surface, rotates no
\* pair and changes no frame counter: the frame count is the value the
\* caller passes to update, which stores it in every filter, and the final
\* draw is made with the stored value.
C28_FinalDrawKeepsFrameCount ==
    [][/\ FinalDrawKeepsPairs
       /\ \A drawFail \in BOOLEAN :
             RenderFinalStage(drawFail) =>
                /\ UNCHANGED <<filter_list, frame, render_chain, final_stage,
                               uniform_holder, resolution>>
                /\ final_stage.filter \in FilterNames =>
                      lastOp'.draw[1].frame_count =
                         filter_list[final_stage.filter].frame_count
       /\ \A inputs \in CountedFrames :
             (/\ Update(FALSE, FALSE, "linking", <<"e">>, "Vertex", "ok", 0, inputs)
              /\ lastOp'.result = "ok") =>
                \A n \in FilterNames :
                   filter_list'[n].frame_count = inputs.frame_count]_vars

\* the final stage, which reads the stage "A", was drawn to the window after
\* two frames of the chain, with the frame count 2 of the last update
C28_FinalDrawnWitness ==
    /\ Running
    /\ lastOp.op = "render_final_stage"
    /\ lastOp.result = "ok"
    /\ Len(lastOp.draw) = 1
    /\ frame = 2
    /\ lastOp.draw[1].frame_count = 2
    /\ \E b \in lastOp.draw[1].supplied :
          /\ b.src = "A"
          /\ b.content.frame = 2
    /\ \A j \in 1..Len(render_buffer_list) : render_buffer_list[j].draws = 2

\* the log of a render_stages call holds one completed draw per chain
\* stage, in the order of the chain
DrawnOnceInOrder(log, chain) ==
    /\ Len(log) = Len(chain)
    /\ \A i \in 1..Len(log) :
          /\ log[i].index = i - 1
          /\ log[i].sid = chain[i].sid
          /\ log[i].ok

\* every draw of the log whose stage names an earlier stage k was handed
\* the texture that k's draw of this call (frame f) wrote
SamplesEarlierDraws(log, chain, f) ==
    \A n \in 1..Len(log) : \A k \in 1..Len(chain) :
        \A e \in chain[log[n].index + 1].input_map :
            (k < log[n].index + 1 /\ e.src = chain[k].name) =>
               \E m \in 1..(n - 1) : \E b \in log[n].supplied :
                  /\ log[m].index = k - 1
                  /\ b.uniform = e.uniform
                  /\ b.tex = log[m].target
                  /\ b.content = [by |-> chain[k].sid, frame |-> f]

\* C29: one successful render_stages call draws every chain stage exactly
\* once, in declared-list order, and the pair of stage k is rotated after
\* k's draw and before the next draw, so a stage declared after k that names
\* k samples the texture k wrote in this same call.
C29_EachStageDrawnOnceInOrder ==
    (Running /\ lastOp = Op("render_stages", "ok")) =>
       /\ DrawnOnceInOrder(drawLog, render_chain)
       /\ SamplesEarlierDraws(drawLog, render_chain, frame)

\* in the step, the loop of render_stages reached the rotation of stage i
\* (1-based): it has a pair and no draw up to its own failed
Reached(i, failAt) ==
    /\ i <= Len(render_buffer_list)
    /\ failAt = 0 \/ i < failAt

C31_EveryInputBound ==
    \A k \in 1..Len(drawLog) :
        LET e == drawLog[k]
        IN /\ \A b \in e.supplied :
                 [name |-> b.uniform, category |-> "target",
                  value |-> Sampled(b.tex)] \in e.uniforms
           /\ \A n \in DOMAIN e.input_holder :
                 n \notin {b.uniform : b \in e.supplied} =>
                    [name |-> n, category |-> "input",
                     value |-> e.input_holder[n].value] \in e.uniforms

\* C32: ShaderView::update resolves the variables of the final stage every
\* frame as it does those of the chain stages: after an update that returns
\* Ok, the cached uniform of every final-stage variable is the conversion of
\* the value the variable resolves to in this frame (base, offset reference
\* and automation against this frame's environment and beat).
C32_FinalVariablesResolved ==
    [][\A inputs \in StageFrames :
          (/\ Update(FALSE, FALSE, "linking", <<"e">>, "Vertex", "ok", 0, inputs)
           /\ lastOp'.result = "ok") =>
             \A n \in DOMAIN final_stage.variable_list :
                /\ n \in DOMAIN final_stage'.uniform_list
                /\ final_stage'.uniform_list[n] =
                      Converted(Resolved(final_stage.variable_list[n], inputs.env,
                                         inputs.autoOut))]_vars

\* C33: after every render_stages call that returns Ok, the front texture
\* (index 0) of each chain stage that has a pair holds the output of a draw
\* of that stage made in this call, and a pair was rotated only if a draw
\* into its back texture completed in this call (also for a stage whose
\* filter name is not in filter_list).
C33_RotatedOnlyWhenDrawn ==
    [][(RenderStages(0) /\ lastOp'.result = "ok") =>
          \A i \in 1..Len(render_chain) :
             i <= Len(render_buffer_list) =>
                /\ render_buffer_list'[i].tex[1].content =
                      [by |-> render_chain[i].sid, frame |-> frame']
                /\ render_buffer_list'[i].tex[1].id # render_buffer_list[i].tex[1].id =>
                      \E k \in 1..Len(drawLog') :
                         /\ drawLog'[k].index = i - 1
                         /\ drawLog'[k].ok
                         /\ drawLog'[k].target = render_buffer_list[i].tex[2].id]_vars

\* C34: in every reachable state of a filter, the cached vertex_text and
\* fragment_text are the source texts the active program was compiled from,
\* after any sequence of successful and failed recompilations.
C34_TextsAreProgramSources ==
    Running =>
       \A n \in FilterNames :
          /\ filter_list[n].program.vertex = filter_list[n].vertex_text
          /\ filter_list[n].program.fragment = filter_list[n].fragment_text

\* C35: after every Stage::update that returns Ok, the cached uniform of a
\* variable whose automation returns None in this call (or is
\* Automation::None) is the conversion of base plus resolved offset, also
\* when an earlier update stored an automated value.
C35_NoStaleAutomatedValue ==
    \A i \in 1..Len(render_chain), inputs \in StageFrames :
        LET stage == render_chain[i]
            su == StageUpdate(stage, inputs)
        IN su.result = "ok" =>
              \A n \in DOMAIN stage.variable_list :
                 LET var == stage.variable_list[n]
                 IN Apply(var.automation, Offsetted(var, inputs.env),
                          inputs.autoOut) = NoValue =>
                       /\ n \in DOMAIN su.stage.uniform_list
                       /\ su.stage.uniform_list[n] =
                             Converted(Offsetted(var, inputs.env))

\* C36: after ShaderView::update the uniform cache holds an entry for a name
\* only if a provider supplied a value for that name in this update (an
\* entry whose provider stopped providing is removed), so no draw uses a
\* value ingested in an earlier frame.
C36_CacheHoldsThisFrameOnly ==
    [][\A inputs \in CacheFrames :
          (/\ Update(FALSE, FALSE, "linking", <<"e">>, "Vertex", "ok", 0, inputs)
           /\ lastOp'.result = "ok") =>
             \A n \in DOMAIN uniform_holder' :
                /\ n \in DOMAIN inputs.provided
                /\ uniform_holder'[n].v = inputs.provided[n].v]_vars

\* C37: Stage::set_variable_value is all-or-nothing: when the conversion
\* fails the call returns an error and variable_list and uniform_list are
\* as before; when it succeeds the variable's base value and its cached
\* uniform hold the new value, an absent variable being inserted with
\* Automation::None and no offset.
C37_SetValueAllOrNothing ==
    [][\A i \in 0..(Len(render_chain) - 1), n \in VariableNames,
          value \in VariableValues, buildFail \in BOOLEAN :
          (SetVariableValue(i, n, value, buildFail) /\ status' = "running") =>
             LET old == render_chain[i + 1]
                 new == render_chain'[i + 1]
             IN IF TryFrom(value, buildFail).result = "ok"
                THEN /\ lastOp'.result = "ok"
                     /\ new.variable_list[n].value = value
                     /\ new.uniform_list[n] = TryFrom(value, FALSE).holder
                     /\ n \notin DOMAIN old.variable_list =>
                           new.variable_list[n] = Variable(value, "None", NoOffset)
                ELSE /\ lastOp'.result = "err"
                     /\ new.variable_list = old.variable_list
                     /\ new.uniform_list = old.uniform_list]_vars

============================================================================
